---- MODULE Spec2Model ----
(***************************************************************************)
(* State-machine model of the analytics pipeline: customer scoring         *)
(* (feature_engineer.py), geographic opportunity scoring                   *)
(* (market_expansion.py), demand forecasting (seasonal_analysis.py) and    *)
(* the cleaning pipeline (data_cleaner.py).                                *)
(*                                                                         *)
(* Each component is a separate specification over its own variables; the  *)
(* variables of the other components stay at their initial value.          *)
(* Floating-point columns are carried as exact fractions [n, d]; a         *)
(* fraction with d = 0 stands for NaN.                                     *)
(***************************************************************************)
EXTENDS Integers, Sequences, FiniteSets, TLC

VARIABLES
    \* customer scoring (feature_engineer.py)
    cohort,             \* per-customer aggregates of orders_with_values
    customer_metrics,   \* the frame returned by create_customer_behavior_features
    scoring_result,     \* "pending" | "ok" | "ValueError"
    \* segment decision table (feature_engineer.py, categorize_customer)
    rfm_row,            \* the (recency, frequency, monetary) scores of one row
    customer_segment,   \* the label categorize_customer returned for rfm_row
    \* market expansion (market_expansion.py)
    state_summary,      \* MarketExpansionAnalyzer.state_summary: state -> row
    geo_pc,             \* "idle" | "penetration" | "matrix" | "categorize" | "done" | "KeyError"
    \* demand forecasting (seasonal_analysis.py, build_demand_forecasting_model)
    monthly_data,       \* the monthly aggregates, sorted by (year, month)
    model_data,         \* monthly_data with its lag columns, after dropna()
    fitted_models,      \* the regressors that have been fitted
    forecasts,          \* the local list of forecast entries
    forecasting_models, \* SeasonalAnalysis.forecasting_models: key -> value
    forecast_pc,        \* "idle" | "start" | "check" | "fit" | "forecast" | "store" |
                        \* "returned error" | "returned models"
    \* data cleaning (data_cleaner.py, DataCleaner)
    raw_datasets,       \* the mapping the cleaner was constructed with
    datasets,           \* DataCleaner.datasets: table name -> [columns, rows]
    cleaning_log,       \* the entries of DataCleaner.cleaning_log that report a fill
    cleaner_run,        \* 0 (no cleaner), 1 (raw data), 2 (the output of run 1)
    cleaner_pc,         \* "idle" | the method clean_all_data calls next | "returned" |
                        \* "ValueError" | "KeyError" | "ZeroDivisionError"
    \* master datasets (feature_engineer.py, create_master_analytical_datasets)
    fe_datasets,        \* FeatureEngineer.datasets: table name -> frame
    fe_frames,          \* the local frames of the method: name -> frame
    master_datasets,    \* FeatureEngineer.master_datasets: name -> frame
    fe_pc,              \* "idle" | the statement that runs next | "returned" | "KeyError"
    \* the three analyses and the files they read
    data_files,         \* the csv files that exist under data/
    analysis_outcome,   \* analysis -> "idle" | "ready" | how its run ended
    \* SeasonalAnalysis.run_complete_seasonal_analysis
    run_pc,             \* "idle" | the statement of the run that runs next | "returned"
    build_calls,        \* invocations of build_demand_forecasting_model in the run
    \* data loading (data_loader.py, DataLoader)
    loader_files,       \* dataset key -> what is on disk under its file name
    loaded_datasets,    \* the local mapping of load_all_datasets
    loader_datasets,    \* DataLoader.datasets
    loader_pc,          \* "idle" | the key of file_mapping loaded next | "store" | "returned"
    cleaned_dir,        \* the names of the files in data/cleaned
    cleaned_datasets,   \* the names of the tables the last save_cleaned_datasets returned
    reloaded_datasets,  \* the names of the tables the last load_cleaned_datasets returned
    save_runs,          \* the number of save_cleaned_datasets runs so far
    store_pc,           \* "idle" | "ready" | "saved" | "loaded"
    output_dir,         \* data/feature_engineered: file name -> who wrote it, in which run, its columns
    fe_runs,            \* the number of feature-engineering runs that saved their datasets
    seasonal_runs,      \* the number of runs of the main of seasonal_analysis.py
    fe_loaded,          \* what the last load_feature_engineered_datasets returned
    dashboard_data,     \* what load_seasonal_data of the dashboard page returned
    cache_files,        \* cache/: cache key -> the pickled value and the time the file was written
    clock,              \* the time in hours
    last_call,          \* the last call of a wrapped function: its arguments, what it returned
    cache_calls,        \* the number of calls of wrapped functions so far
    analyze_module,     \* the module whose analyze() is called
    analyze_steps,      \* the steps of the analysis pipeline executed so far
    analyze_result,     \* "idle" | "pending" | "running" | what analyze() returned
    \* data validation (data_validator.py, DataValidator)
    validator_datasets, \* DataValidator.datasets: table name -> [dtypes, rows]
    validation_results, \* DataValidator.validation_results: category -> check -> status
    validation_passed,  \* DataValidator.validation_passed
    returned_passed     \* "none" | the flag the last validate_all_data returned

scoringVars == <<cohort, customer_metrics, scoring_result>>
segmentVars == <<rfm_row, customer_segment>>
geoVars == <<state_summary, geo_pc>>
forecastVars ==
    <<monthly_data, model_data, fitted_models, forecasts, forecasting_models, forecast_pc>>
cleanerVars == <<raw_datasets, datasets, cleaning_log, cleaner_run, cleaner_pc>>
masterVars == <<fe_datasets, fe_frames, master_datasets, fe_pc>>
analysisVars == <<data_files, analysis_outcome>>
runVars == <<run_pc, build_calls>>
loaderVars == <<loader_files, loaded_datasets, loader_datasets, loader_pc>>
storeVars == <<cleaned_dir, cleaned_datasets, reloaded_datasets, save_runs, store_pc>>
outputVars == <<output_dir, fe_runs, seasonal_runs, fe_loaded, dashboard_data>>
cacheVars == <<cache_files, clock, last_call, cache_calls>>
analyzeVars == <<analyze_module, analyze_steps, analyze_result>>
validatorVars ==
    <<validator_datasets, validation_results, validation_passed, returned_passed>>
extVars == <<storeVars, outputVars, cacheVars, analyzeVars, validatorVars>>
ExceptStore == <<outputVars, cacheVars, analyzeVars, validatorVars>>
ExceptOutput == <<storeVars, cacheVars, analyzeVars, validatorVars>>
ExceptCache == <<storeVars, outputVars, analyzeVars, validatorVars>>
ExceptAnalyze == <<storeVars, outputVars, cacheVars, validatorVars>>
ExceptValidator == <<storeVars, outputVars, cacheVars, analyzeVars>>
vars ==
    <<scoringVars, segmentVars, geoVars, forecastVars, cleanerVars, masterVars,
      analysisVars, runVars, loaderVars, extVars>>

----------------------------------------------------------------------------
(* Exact arithmetic on fractions; d = 0 is NaN and propagates.              *)

NaN == [n |-> 0, d |-> 0]

IsNaN(a) == a.d = 0

RECURSIVE GCD(_, _)
GCD(a, b) == IF b = 0 THEN a ELSE GCD(b, a % b)

Abs(x) == IF x < 0 THEN -x ELSE x

Norm(n, d) ==
    IF d = 0 THEN NaN
    ELSE LET g == GCD(Abs(n), Abs(d))
             s == IF d < 0 THEN -1 ELSE 1
         IN [n |-> s * (n \div g), d |-> s * (d \div g)]

Frac(n, d) == Norm(n, d)

Int2F(x) == [n |-> x, d |-> 1]

FMul(a, b) ==
    IF IsNaN(a) \/ IsNaN(b) THEN NaN
    ELSE LET g1 == GCD(Abs(a.n), b.d)
             g2 == GCD(Abs(b.n), a.d)
         IN Norm((a.n \div g1) * (b.n \div g2), (a.d \div g2) * (b.d \div g1))

\* a / b; the callers guard b # 0 as the code does
FDiv(a, b) ==
    IF IsNaN(a) \/ IsNaN(b) \/ b.n = 0 THEN NaN
    ELSE FMul(a, Norm(b.d, b.n))

FAdd(a, b) ==
    IF IsNaN(a) \/ IsNaN(b) THEN NaN
    ELSE Norm(a.n * b.d + b.n * a.d, a.d * b.d)

FSub(a, b) ==
    IF IsNaN(a) \/ IsNaN(b) THEN NaN
    ELSE Norm(a.n * b.d - b.n * a.d, a.d * b.d)

\* comparisons are False when either side is NaN, as in IEEE arithmetic
FLt(a, b) == ~IsNaN(a) /\ ~IsNaN(b) /\ a.n * b.d < b.n * a.d
FLe(a, b) == ~IsNaN(a) /\ ~IsNaN(b) /\ a.n * b.d <= b.n * a.d
FEq(a, b) == ~IsNaN(a) /\ ~IsNaN(b) /\ a.n * b.d = b.n * a.d

\* np.maximum / np.minimum: NaN propagates
FMax(a, b) == IF IsNaN(a) \/ IsNaN(b) THEN NaN ELSE IF FLt(a, b) THEN b ELSE a
FMin(a, b) == IF IsNaN(a) \/ IsNaN(b) THEN NaN ELSE IF FLt(b, a) THEN b ELSE a

\* Series.fillna(v)
FillNa(a, v) == IF IsNaN(a) THEN v ELSE a

----------------------------------------------------------------------------
(* pandas helpers used by the scoring code                                  *)

\* a possibly-missing integer of a column
NA == [isna |-> TRUE, v |-> 0]
Num(x) == [isna |-> FALSE, v |-> x]

SeqToSet(s) == {s[i] : i \in DOMAIN s}

\* a lazily defined sequence, evaluated once into its elements
Strict(s) == SubSeq(s, 1, Len(s))

\* the indices of xs whose value is present
Present(xs) == {i \in DOMAIN xs : ~xs[i].isna}

\* the present values of xs in ascending order
SortedValues(xs) ==
    LET idx == Present(xs)
        pos(i) == Cardinality({j \in idx : xs[j].v < xs[i].v \/ (xs[j].v = xs[i].v /\ j < i)}) + 1
    IN Strict([k \in 1..Cardinality(idx) |-> xs[CHOOSE i \in idx : pos(i) = k].v])

\* Series.quantile(k/q), linear interpolation, scaled by q so that it stays an integer
QuantileTimesQ(s, k, q) ==
    LET n == Len(s)
        p == (n - 1) * k
        i == p \div q
        r == p % q
    IN IF r = 0 THEN q * s[i + 1]
       ELSE q * s[i + 1] + r * (s[i + 2] - s[i + 1])

\* the q+1 bin edges (edge k at position k+1) over the sorted values s, each scaled by q
EdgesOf(s, q) == Strict([k \in 1..(q + 1) |-> QuantileTimesQ(s, k - 1, q)])

\* the bin edges of pd.qcut(xs, q)
QcutEdges(xs, q) == EdgesOf(SortedValues(xs), q)

HasDuplicate(e) == \E k \in 1..(Len(e) - 1) : e[k] = e[k + 1]

\* pd.qcut raises ValueError("Bin edges must be unique") (duplicates='raise');
\* with no present value every edge is NaN and the edges are not unique either
QcutRaises(xs, q) ==
    \/ Present(xs) = {}
    \/ HasDuplicate(QcutEdges(xs, q))

\* the bin (1..q) of every value given the edges e: right-closed intervals, the
\* lowest edge included; a missing value stays missing
BinsOf(xs, e, q) ==
    Strict([i \in DOMAIN xs |->
        IF xs[i].isna THEN NA
        ELSE IF q * xs[i].v = e[1] THEN Num(1)
        ELSE Num(Cardinality({k \in DOMAIN e : e[k] < q * xs[i].v}))])

Qcut(xs, q) == BinsOf(xs, QcutEdges(xs, q), q)

\* Series.rank(method='first') of a column of fractions: ties ranked by row position,
\* NaN keeps rank NaN
RankFirst(fs) ==
    Strict([i \in DOMAIN fs |->
        IF IsNaN(fs[i]) THEN NA
        ELSE Num(1 + Cardinality({j \in DOMAIN fs :
                     FLt(fs[j], fs[i]) \/ (FEq(fs[j], fs[i]) /\ j < i)}))])

----------------------------------------------------------------------------
(* Customer scoring: FeatureEngineer.create_customer_behavior_features      *)

\* bounds of the cohorts explored
MaxCustomers == 4

\* the days on which a last order is placed, and the values of an order
RecencyDays == 0..3
OrderValues == 1..2

\* (total_orders, value of each order) of a customer in the RFM cohorts
RfmOrderProfiles == {<<1, 2>>, <<2, 1>>}

\* 30.44 days per month, times 100
DaysPerMonthX100 == 3044

QuintileBins == 5
QuartileBins == 4

\* (total_orders, customer_lifetime_days) of a customer in the CLV cohorts: a single
\* order, two orders less than a month apart, two orders more than a month apart
ClvOrderProfiles == {<<1, 0>>, <<2, 20>>, <<2, 61>>}

SegmentLabels ==
    {"Champions", "Loyal Customers", "New Customers", "Potential Loyalists", "At Risk",
     "Cannot Lose Them", "Promising", "Lost", "Others"}

ClvLabels == <<"Low Value", "Medium Value", "High Value", "VIP">>

\* labels=[5, 4, 3, 2, 1]: the lowest bin of days_since_last_order scores 5
RecencyLabel_OffByOne(bin) == 5 - bin

RecencyLabel(bin) == 6 - bin

\* labels=[1, 2, 3, 4, 5]
AscendingLabel(bin) == bin

categorize_customer_StrictChampions(r, f, m) ==
    IF r > 4 /\ f >= 4 /\ m >= 4 THEN "Champions"
    ELSE IF r >= 3 /\ f >= 3 /\ m >= 3 THEN "Loyal Customers"
    ELSE IF r >= 4 /\ f <= 2 THEN "New Customers"
    ELSE IF r >= 3 /\ f >= 3 /\ m <= 2 THEN "Potential Loyalists"
    ELSE IF r <= 2 /\ f >= 3 /\ m >= 3 THEN "At Risk"
    ELSE IF r <= 2 /\ f <= 2 /\ m >= 3 THEN "Cannot Lose Them"
    ELSE IF r >= 3 /\ f <= 2 /\ m <= 2 THEN "Promising"
    ELSE IF r <= 2 /\ f <= 2 /\ m <= 2 THEN "Lost"
    ELSE "Others"

categorize_customer(r, f, m) ==
    IF r >= 4 /\ f >= 4 /\ m >= 4 THEN "Champions"
    ELSE IF r >= 3 /\ f >= 3 /\ m >= 3 THEN "Loyal Customers"
    ELSE IF r >= 4 /\ f <= 2 THEN "New Customers"
    ELSE IF r >= 3 /\ f >= 3 /\ m <= 2 THEN "Potential Loyalists"
    ELSE IF r <= 2 /\ f >= 3 /\ m >= 3 THEN "At Risk"
    ELSE IF r <= 2 /\ f <= 2 /\ m >= 3 THEN "Cannot Lose Them"
    ELSE IF r >= 3 /\ f <= 2 /\ m <= 2 THEN "Promising"
    ELSE IF r <= 2 /\ f <= 2 /\ m <= 2 THEN "Lost"
    ELSE "Others"

\* customer_lifetime_days / 30.44
LifetimeMonths(days) == Frac(days * 100, DaysPerMonthX100)

\* np.where(customer_lifetime_days > 0, total_orders / (customer_lifetime_days / 30.44), total_orders)
order_frequency_per_month(total_orders, lifetime_days) ==
    IF lifetime_days > 0 THEN FDiv(Int2F(total_orders), LifetimeMonths(lifetime_days))
    ELSE Int2F(total_orders)

estimated_clv_RunRate(avg_order_value, total_orders, lifetime_days) ==
    FMul(avg_order_value, order_frequency_per_month(total_orders, lifetime_days))

\* avg_order_value * order_frequency_per_month * np.maximum(customer_lifetime_days / 30.44, 1)
estimated_clv(avg_order_value, total_orders, lifetime_days) ==
    FMul(FMul(avg_order_value, order_frequency_per_month(total_orders, lifetime_days)),
         FMax(LifetimeMonths(lifetime_days), Int2F(1)))

customer_status_Strict(days) ==
    IF days < 90 THEN "Active" ELSE IF days < 180 THEN "Inactive" ELSE "Churned"

\* np.where(days <= 90, 'Active', np.where(days <= 180, 'Inactive', 'Churned'))
customer_status(days) ==
    IF days <= 90 THEN "Active" ELSE IF days <= 180 THEN "Inactive" ELSE "Churned"

\* the groupby('customer_id') aggregates of one customer whose orders each carry
\* order_value (NaN when the orders have no items: sum skips it, mean stays NaN)
Aggregate(c, analysis_date) ==
    [total_orders |-> c.total_orders,
     total_revenue |-> IF IsNaN(c.order_value) THEN Int2F(0)
                       ELSE FMul(Int2F(c.total_orders), c.order_value),
     avg_order_value |-> c.order_value,
     days_since_last_order |-> analysis_date - c.last_order_day,
     customer_lifetime_days |-> c.lifetime_days]

SeqMax(s) == CHOOSE m \in SeqToSet(s) : \A x \in SeqToSet(s) : x <= m

\* pd.qcut(ranked or raw column).astype(int) for the clv quartiles: the label or NaN
ClvCategory_Reversed(bin) == IF bin.isna THEN "NaN" ELSE ClvLabels[5 - bin.v]

ClvCategory(bin) == IF bin.isna THEN "NaN" ELSE ClvLabels[bin.v]

\* the aggregated frame of the cohort; analysis_date is the latest purchase
Aggregates(c) ==
    Strict([i \in DOMAIN c |->
        Aggregate(c[i], SeqMax([j \in DOMAIN c |-> c[j].last_order_day]))])

DaysColumn(agg) == Strict([i \in DOMAIN agg |-> Num(agg[i].days_since_last_order)])
OrdersColumn(agg) == Strict([i \in DOMAIN agg |-> Int2F(agg[i].total_orders)])
RevenueColumn(agg) == Strict([i \in DOMAIN agg |-> agg[i].total_revenue])
ClvColumn(agg) ==
    Strict([i \in DOMAIN agg |-> estimated_clv(agg[i].avg_order_value, agg[i].total_orders,
                                               agg[i].customer_lifetime_days)])

\* one row of the returned frame
ScoredRow(a, r, f, m, clv, cbin) ==
    [total_orders |-> a.total_orders,
     total_revenue |-> a.total_revenue,
     avg_order_value |-> a.avg_order_value,
     days_since_last_order |-> a.days_since_last_order,
     customer_lifetime_days |-> a.customer_lifetime_days,
     order_frequency_per_month |->
         order_frequency_per_month(a.total_orders, a.customer_lifetime_days),
     recency_score |-> r,
     frequency_score |-> f,
     monetary_score |-> m,
     rfm_score |-> r * 100 + f * 10 + m,
     customer_segment |-> categorize_customer(r, f, m),
     estimated_clv |-> clv,
     clv_category |-> ClvCategory(cbin),
     customer_status |-> customer_status(a.days_since_last_order),
     is_repeat_customer |-> a.total_orders > 1]

ScoredFrame(agg, rbin, fbin, mbin, clv, cbin) ==
    Strict([i \in DOMAIN agg |->
        ScoredRow(agg[i], RecencyLabel(rbin[i].v), AscendingLabel(fbin[i].v),
                  AscendingLabel(mbin[i].v), clv[i], cbin[i])])

create_customer_behavior_features ==
    /\ scoring_result = "pending"
    /\ \E agg \in {Aggregates(cohort)} :
       \E days \in {DaysColumn(agg)}, frank \in {RankFirst(OrdersColumn(agg))},
          mrank \in {RankFirst(RevenueColumn(agg))}, clv \in {ClvColumn(agg)} :
       \E crank \in {RankFirst(clv)} :
          IF \/ QcutRaises(days, QuintileBins)
             \/ QcutRaises(frank, QuintileBins)
             \/ QcutRaises(mrank, QuintileBins)
             \/ QcutRaises(crank, QuartileBins)
          THEN /\ scoring_result' = "ValueError"
               /\ customer_metrics' = <<>>
          ELSE /\ scoring_result' = "ok"
               /\ customer_metrics' =
                    ScoredFrame(agg, Qcut(days, QuintileBins), Qcut(frank, QuintileBins),
                                Qcut(mrank, QuintileBins), clv, Qcut(crank, QuartileBins))
    /\ UNCHANGED <<cohort, segmentVars, geoVars, forecastVars, cleanerVars>>
    /\ UNCHANGED <<masterVars, analysisVars, runVars, loaderVars>>
    /\ UNCHANGED extVars

\* the decision table applied to one row of scores
ApplySegment ==
    /\ customer_segment = "pending"
    /\ customer_segment' = categorize_customer(rfm_row.r, rfm_row.f, rfm_row.m)
    /\ UNCHANGED <<rfm_row, scoringVars, geoVars, forecastVars, cleanerVars>>
    /\ UNCHANGED <<masterVars, analysisVars, runVars, loaderVars>>
    /\ UNCHANGED extVars

IdleScoring == cohort = <<>> /\ customer_metrics = <<>> /\ scoring_result = "idle"
IdleSegment == rfm_row = [r |-> 1, f |-> 1, m |-> 1] /\ customer_segment = "idle"
IdleGeo == state_summary = <<>> /\ geo_pc = "idle"
IdleForecast ==
    /\ monthly_data = <<>>
    /\ model_data = <<>>
    /\ fitted_models = {}
    /\ forecasts = <<>>
    /\ forecasting_models = <<>>
    /\ forecast_pc = "idle"
IdleCleaner ==
    /\ raw_datasets = <<>>
    /\ datasets = <<>>
    /\ cleaning_log = <<>>
    /\ cleaner_run = 0
    /\ cleaner_pc = "idle"
IdleMaster ==
    /\ fe_datasets = <<>>
    /\ fe_frames = <<>>
    /\ master_datasets = <<>>
    /\ fe_pc = "idle"
IdleAnalysis == data_files = {} /\ analysis_outcome = <<>>
IdleRun == run_pc = "idle" /\ build_calls = 0
IdleStore ==
    /\ cleaned_dir = {}
    /\ cleaned_datasets = {}
    /\ reloaded_datasets = {}
    /\ save_runs = 0
    /\ store_pc = "idle"
IdleOutput ==
    /\ output_dir = <<>>
    /\ fe_runs = 0
    /\ seasonal_runs = 0
    /\ fe_loaded = <<>>
    /\ dashboard_data = "not loaded"
IdleCache == cache_files = <<>> /\ clock = 0 /\ last_call = <<>> /\ cache_calls = 0
IdleAnalyze == analyze_module = "none" /\ analyze_steps = <<>> /\ analyze_result = "idle"
IdleValidator ==
    /\ validator_datasets = <<>>
    /\ validation_results = <<>>
    /\ validation_passed = TRUE
    /\ returned_passed = "none"
IdleExt == IdleStore /\ IdleOutput /\ IdleCache /\ IdleAnalyze /\ IdleValidator
IdleExceptStore == IdleOutput /\ IdleCache /\ IdleAnalyze /\ IdleValidator
IdleExceptOutput == IdleStore /\ IdleCache /\ IdleAnalyze /\ IdleValidator
IdleExceptCache == IdleStore /\ IdleOutput /\ IdleAnalyze /\ IdleValidator
IdleExceptAnalyze == IdleStore /\ IdleOutput /\ IdleCache /\ IdleValidator
IdleExceptValidator == IdleStore /\ IdleOutput /\ IdleCache /\ IdleAnalyze
IdleLoader ==
    /\ loader_files = <<>>
    /\ loaded_datasets = <<>>
    /\ loader_datasets = <<>>
    /\ loader_pc = "idle"

\* cohorts of single- and double-order customers that differ in recency, frequency
\* and revenue (every order has items)
RfmCustomers ==
    {[last_order_day |-> d, total_orders |-> p[1], order_value |-> Int2F(p[2]),
      lifetime_days |-> 0] : d \in RecencyDays, p \in RfmOrderProfiles}

\* what varies between the customers of the CLV cohorts: order count and lifetime,
\* and the order value (possibly missing)
ClvProfiles ==
    {[total_orders |-> p[1], lifetime_days |-> p[2], order_value |-> v] :
        p \in ClvOrderProfiles, v \in {Int2F(x) : x \in OrderValues} \cup {NaN}}

\* customer i placed the last order on day i
ClvCohort(pf) ==
    Strict([i \in DOMAIN pf |->
        [last_order_day |-> i, total_orders |-> pf[i].total_orders,
         order_value |-> pf[i].order_value, lifetime_days |-> pf[i].lifetime_days]])

InitRFM ==
    /\ \E N \in 1..MaxCustomers : cohort \in [1..N -> RfmCustomers]
    /\ customer_metrics = <<>>
    /\ scoring_result = "pending"
    /\ IdleSegment
    /\ IdleGeo
    /\ IdleForecast
    /\ IdleCleaner
    /\ IdleMaster
    /\ IdleAnalysis
    /\ IdleRun
    /\ IdleLoader
    /\ IdleExt

InitCLV ==
    /\ \E N \in 1..MaxCustomers : \E pf \in [1..N -> ClvProfiles] : cohort = ClvCohort(pf)
    /\ customer_metrics = <<>>
    /\ scoring_result = "pending"
    /\ IdleSegment
    /\ IdleGeo
    /\ IdleForecast
    /\ IdleCleaner
    /\ IdleMaster
    /\ IdleAnalysis
    /\ IdleRun
    /\ IdleLoader
    /\ IdleExt

InitSegment ==
    /\ rfm_row \in [r : 1..QuintileBins, f : 1..QuintileBins, m : 1..QuintileBins]
    /\ customer_segment = "pending"
    /\ IdleScoring
    /\ IdleGeo
    /\ IdleForecast
    /\ IdleCleaner
    /\ IdleMaster
    /\ IdleAnalysis
    /\ IdleRun
    /\ IdleLoader
    /\ IdleExt

\* the days on which the last orders of the status cohorts are placed: against
\* the latest of them they lie 0, 90, 91, 180 and 181 days back
StatusOrderDays == {0, 1, 90, 91, 181}

\* single- and double-order customers of either order value
StatusProfiles ==
    {[total_orders |-> n, lifetime_days |-> IF n = 1 THEN 0 ELSE 20, order_value |-> Int2F(v)] :
        n \in 1..2, v \in OrderValues}

\* cohorts with one customer per last-order day
InitStatus ==
    /\ \E days \in (SUBSET StatusOrderDays) \ {{}} :
       \E pf \in [days -> StatusProfiles] :
          cohort = Strict([i \in 1..Cardinality(days) |->
             LET d == CHOOSE e \in days : Cardinality({x \in days : x < e}) = i - 1
             IN [last_order_day |-> d, total_orders |-> pf[d].total_orders,
                 order_value |-> pf[d].order_value, lifetime_days |-> pf[d].lifetime_days]])
    /\ customer_metrics = <<>>
    /\ scoring_result = "pending"
    /\ IdleSegment
    /\ IdleGeo
    /\ IdleForecast
    /\ IdleCleaner
    /\ IdleMaster
    /\ IdleAnalysis
    /\ IdleRun
    /\ IdleLoader
    /\ IdleExt

NextScoring == create_customer_behavior_features
NextSegment == ApplySegment

SpecRFM == InitRFM /\ [][NextScoring]_vars
SpecCLV == InitCLV /\ [][NextScoring]_vars
SpecStatus == InitStatus /\ [][NextScoring]_vars
SpecSegment == InitSegment /\ [][NextSegment]_vars

----------------------------------------------------------------------------
(* Market expansion: MarketExpansionAnalyzer.calculate_untapped_potential   *)

\* bound on the customers of one state
MaxCustomerCount == 2

\* state_data: population rounded down to thousands of inhabitants (so that the
\* products of urban populations stay within 32-bit integers; the factor 1000 of
\* "per 1000 urban population" is absorbed by the unit), gdp_per_capita, tier,
\* urban_rate in percent
StateData ==
    [SP |-> [population |-> 46649, gdp_per_capita |-> 56956, tier |-> 1, urban_rate |-> 96],
     RJ |-> [population |-> 17463, gdp_per_capita |-> 51929, tier |-> 1, urban_rate |-> 97],
     MG |-> [population |-> 21411, gdp_per_capita |-> 35219, tier |-> 1, urban_rate |-> 85],
     BA |-> [population |-> 15203, gdp_per_capita |-> 22045, tier |-> 2, urban_rate |-> 73],
     PR |-> [population |-> 11597, gdp_per_capita |-> 42791, tier |-> 2, urban_rate |-> 85],
     RS |-> [population |-> 11466, gdp_per_capita |-> 45180, tier |-> 2, urban_rate |-> 85],
     PE |-> [population |-> 9674, gdp_per_capita |-> 21077, tier |-> 2, urban_rate |-> 80],
     CE |-> [population |-> 9240, gdp_per_capita |-> 18320, tier |-> 2, urban_rate |-> 75],
     PA |-> [population |-> 8777, gdp_per_capita |-> 17179, tier |-> 3, urban_rate |-> 68],
     SC |-> [population |-> 7338, gdp_per_capita |-> 46016, tier |-> 2, urban_rate |-> 84],
     GO |-> [population |-> 7206, gdp_per_capita |-> 30544, tier |-> 2, urban_rate |-> 90],
     MA |-> [population |-> 7153, gdp_per_capita |-> 14748, tier |-> 3, urban_rate |-> 64],
     PB |-> [population |-> 4059, gdp_per_capita |-> 17687, tier |-> 3, urban_rate |-> 75],
     AM |-> [population |-> 4269, gdp_per_capita |-> 23894, tier |-> 3, urban_rate |-> 79],
     ES |-> [population |-> 4108, gdp_per_capita |-> 38177, tier |-> 2, urban_rate |-> 83],
     MT |-> [population |-> 3567, gdp_per_capita |-> 49265, tier |-> 2, urban_rate |-> 82],
     AL |-> [population |-> 3365, gdp_per_capita |-> 16463, tier |-> 3, urban_rate |-> 73],
     PI |-> [population |-> 3289, gdp_per_capita |-> 14454, tier |-> 3, urban_rate |-> 66],
     DF |-> [population |-> 3094, gdp_per_capita |-> 85830, tier |-> 1, urban_rate |-> 97],
     MS |-> [population |-> 2839, gdp_per_capita |-> 39265, tier |-> 2, urban_rate |-> 86],
     RN |-> [population |-> 3560, gdp_per_capita |-> 18690, tier |-> 3, urban_rate |-> 77],
     RO |-> [population |-> 1815, gdp_per_capita |-> 26157, tier |-> 3, urban_rate |-> 74],
     AC |-> [population |-> 906, gdp_per_capita |-> 18327, tier |-> 3, urban_rate |-> 73],
     AP |-> [population |-> 877, gdp_per_capita |-> 19952, tier |-> 3, urban_rate |-> 90],
     SE |-> [population |-> 2338, gdp_per_capita |-> 22942, tier |-> 3, urban_rate |-> 74],
     TO |-> [population |-> 1607, gdp_per_capita |-> 22555, tier |-> 3, urban_rate |-> 79],
     RR |-> [population |-> 652, gdp_per_capita |-> 22896, tier |-> 3, urban_rate |-> 76]]

Tiers == {1, 2, 3}

\* the states whose rows the explored summaries hold: two of tier 1, one of tier 2,
\* two of tier 3 and one code that state_data does not list
SummaryStates == {"SP", "DF", "BA", "PA", "RR", "XX"}

\* a row of state_summary as analyze_market_penetration leaves it
PenetrationRow(count) ==
    [customer_count |-> count,
     population |-> NaN, gdp_per_capita |-> NaN, tier |-> NA, urban_rate |-> NaN,
     urban_population |-> NaN, penetration_rate |-> NaN,
     benchmark_penetration |-> NaN, untapped_customers |-> NaN]

\* lines 179-184: the economic context of the states that state_data lists
WithContext(state, row) ==
    IF state \in DOMAIN StateData
    THEN [row EXCEPT !.population = Int2F(StateData[state].population),
                     !.gdp_per_capita = Int2F(StateData[state].gdp_per_capita),
                     !.tier = Num(StateData[state].tier),
                     !.urban_rate = Frac(StateData[state].urban_rate, 100)]
    ELSE row

\* population * urban_rate (thousands of urban residents)
urban_population(row) == FMul(row.population, row.urban_rate)

\* customer_count / urban_population * 1000: customers per 1000 urban residents,
\* that is customers per unit of urban_population as carried here
penetration_rate(count, urban) ==
    IF IsNaN(urban) THEN NaN ELSE Frac(count * urban.d, urban.n)

RECURSIVE SumCount(_, _)
SumCount(rows, S) ==
    IF S = {} THEN 0
    ELSE LET x == CHOOSE x \in S : TRUE
         IN rows[x].customer_count + SumCount(rows, S \ {x})

RECURSIVE SumUrban(_, _)
SumUrban(rows, S) ==
    IF S = {} THEN Int2F(0)
    ELSE LET x == CHOOSE x \in S : TRUE
         IN FAdd(rows[x].urban_population, SumUrban(rows, S \ {x}))

TierStates(rows, t) == {x \in DOMAIN rows : ~rows[x].tier.isna /\ rows[x].tier.v = t}

\* tier_benchmarks[tier], defined for the tiers that have a state in the summary
tier_benchmark(rows, t) ==
    penetration_rate(SumCount(rows, TierStates(rows, t)), SumUrban(rows, TierStates(rows, t)))

\* state_summary['tier'].map(tier_benchmarks)
benchmark_penetration(rows, x) ==
    IF rows[x].tier.isna THEN NaN ELSE tier_benchmark(rows, rows[x].tier.v)

untapped_customers_Unclamped(benchmark, urban, count) ==
    FSub(FMul(benchmark, urban), Int2F(count))

\* np.maximum(0, benchmark_penetration * urban_population / 1000 - customer_count)
untapped_customers(benchmark, urban, count) ==
    FMax(Int2F(0), FSub(FMul(benchmark, urban), Int2F(count)))

WithUrban(rows) ==
    [x \in DOMAIN rows |->
        [rows[x] EXCEPT !.urban_population = urban_population(rows[x]),
                        !.penetration_rate =
                            penetration_rate(rows[x].customer_count, urban_population(rows[x]))]]

WithUntapped(rows) ==
    [x \in DOMAIN rows |->
        [rows[x] EXCEPT !.benchmark_penetration = benchmark_penetration(rows, x),
                        !.untapped_customers =
                            untapped_customers(benchmark_penetration(rows, x),
                                               rows[x].urban_population,
                                               rows[x].customer_count)]]

MaterialiseRows(rows) == rows @@ <<>>

\* lines 178-209: the context columns, urban_population, penetration_rate,
\* benchmark_penetration and untapped_customers.  The columns derived after them
\* (economic_factor, adjusted_untapped_customers, untapped_revenue_potential,
\* market_potential_score) are new columns that leave these unchanged and cannot
\* raise; they are not carried.
calculate_untapped_potential ==
    /\ geo_pc = "penetration"
    /\ IF DOMAIN state_summary \cap DOMAIN StateData = {}
       THEN \* no row sets the 'population' column: line 187 raises KeyError
            /\ geo_pc' = "KeyError"
            /\ UNCHANGED state_summary
       ELSE \E ctx \in {MaterialiseRows([x \in DOMAIN state_summary |->
                                            WithContext(x, state_summary[x])])} :
            \E urb \in {MaterialiseRows(WithUrban(ctx))} :
               /\ state_summary' = MaterialiseRows(WithUntapped(urb))
               /\ geo_pc' = "done"
    /\ UNCHANGED <<scoringVars, segmentVars, forecastVars, cleanerVars>>
    /\ UNCHANGED <<masterVars, analysisVars, runVars, loaderVars>>
    /\ UNCHANGED extVars
InitUntapped ==
    /\ \E S \in (SUBSET SummaryStates) \ {{}} :
          \E counts \in [S -> 0..MaxCustomerCount] :
             state_summary = [x \in S |-> PenetrationRow(counts[x])]
    /\ geo_pc = "penetration"
    /\ IdleScoring
    /\ IdleSegment
    /\ IdleForecast
    /\ IdleCleaner
    /\ IdleMaster
    /\ IdleAnalysis
    /\ IdleRun
    /\ IdleLoader
    /\ IdleExt

NextUntapped == calculate_untapped_potential

SpecUntapped == InitUntapped /\ [][NextUntapped]_vars

----------------------------------------------------------------------------
(* Market expansion: generate_expansion_opportunity_matrix                  *)

\* bound on the rows of the summaries the matrix is generated for
MaxSummaryRows == 2

PriorityLabels ==
    {"Optimization Priority", "Maintain & Optimize", "High Priority", "Medium Priority",
     "Low Priority", "Not Recommended"}

\* thresholds on the population, in thousands as in StateData
LargeTier3Population == 2000
MediumTier3Population == 1000

categorize_expansion_priority_Selective(score, tier, population) ==
    IF ~tier.isna /\ tier.v = 1
    THEN IF FLe(Frac(6, 10), score) THEN "Optimization Priority" ELSE "Maintain & Optimize"
    ELSE IF ~tier.isna /\ tier.v = 2
    THEN IF FLe(Frac(7, 10), score) THEN "High Priority"
         ELSE IF FLe(Frac(5, 10), score) THEN "Medium Priority"
         ELSE "Low Priority"
    ELSE IF FLe(Frac(6, 10), score) /\ FLt(Int2F(LargeTier3Population), population)
         THEN "Selective Priority"
         ELSE IF FLe(Frac(4, 10), score) /\ FLt(Int2F(MediumTier3Population), population)
         THEN "Low Priority"
         ELSE "Not Recommended"

\* a missing tier or population compares False and falls to the last branches
categorize_expansion_priority(score, tier, population) ==
    IF ~tier.isna /\ tier.v = 1
    THEN IF FLe(Frac(6, 10), score) THEN "Optimization Priority" ELSE "Maintain & Optimize"
    ELSE IF ~tier.isna /\ tier.v = 2
    THEN IF FLe(Frac(7, 10), score) THEN "High Priority"
         ELSE IF FLe(Frac(5, 10), score) THEN "Medium Priority"
         ELSE "Low Priority"
    ELSE IF FLe(Frac(6, 10), score) /\ FLt(Int2F(LargeTier3Population), population)
         THEN "Medium Priority"
         ELSE IF FLe(Frac(4, 10), score) /\ FLt(Int2F(MediumTier3Population), population)
         THEN "Low Priority"
         ELSE "Not Recommended"

\* Series.max(): the largest present value of a column, NaN when none is present
RECURSIVE ColMaxOver(_, _)
ColMaxOver(col, S) ==
    IF S = {} THEN NaN
    ELSE LET x == CHOOSE x \in S : TRUE
             rest == ColMaxOver(col, S \ {x})
         IN IF IsNaN(col[x]) THEN rest
            ELSE IF IsNaN(rest) \/ FLt(rest, col[x]) THEN col[x] ELSE rest

ColMax(col) == ColMaxOver(col, DOMAIN col)

Positive(a) == FLt(Int2F(0), a)

\* (population / max_population) * 0.6 + (gdp_per_capita / max_gdp_per_capita) * 0.4
market_size_score(row, max_population, max_gdp) ==
    FAdd(FMul(FDiv(row.population, max_population), Frac(6, 10)),
         FMul(FDiv(row.gdp_per_capita, max_gdp), Frac(4, 10)))

\* untapped_score * 0.7 + growth_potential_score * 0.3
growth_potential_score(row, max_untapped_revenue, max_penetration) ==
    FAdd(FMul(IF Positive(max_untapped_revenue)
              THEN FDiv(row.untapped_revenue_potential, max_untapped_revenue)
              ELSE Int2F(0),
              Frac(7, 10)),
         FMul(IF Positive(max_penetration)
              THEN FSub(Int2F(1), FDiv(row.penetration_rate, max_penetration))
              ELSE Int2F(0),
              Frac(3, 10)))

\* delivery_score * 0.6 + infrastructure_score * 0.4
operational_feasibility_score(row, max_delivery_days) ==
    FAdd(FMul(IF Positive(max_delivery_days)
              THEN FSub(Int2F(1), FDiv(row.avg_delivery_days, max_delivery_days))
              ELSE Int2F(1),
              Frac(6, 10)),
         FMul(row.urban_rate, Frac(4, 10)))

\* seller_efficiency_score.fillna(0.5)
competitive_score(row) == FillNa(row.seller_efficiency_score, Frac(1, 2))

combined_opportunity_score_Overweight(ms, gp, op, cs) ==
    FAdd(FAdd(FAdd(FAdd(Int2F(0),
        FMul(FillNa(ms, Int2F(0)), Frac(45, 100))),
        FMul(FillNa(gp, Int2F(0)), Frac(30, 100))),
        FMul(FillNa(op, Int2F(0)), Frac(20, 100))),
        FMul(FillNa(cs, Int2F(0)), Frac(15, 100)))

\* the weighted sum of the four scores, each with fillna(0)
combined_opportunity_score(ms, gp, op, cs) ==
    FAdd(FAdd(FAdd(FAdd(Int2F(0),
        FMul(FillNa(ms, Int2F(0)), Frac(35, 100))),
        FMul(FillNa(gp, Int2F(0)), Frac(30, 100))),
        FMul(FillNa(op, Int2F(0)), Frac(20, 100))),
        FMul(FillNa(cs, Int2F(0)), Frac(15, 100)))

ColumnOf(rows, field) == MaterialiseRows([x \in DOMAIN rows |-> rows[x][field]])

\* the row of the matrix: the columns read, the four scores, their weighted sum
\* and the category
MatrixRow(row, max_population, max_gdp, max_untapped_revenue, max_penetration, max_days) ==
    LET ms == market_size_score(row, max_population, max_gdp)
        gp == growth_potential_score(row, max_untapped_revenue, max_penetration)
        op == operational_feasibility_score(row, max_days)
        cs == competitive_score(row)
        score == combined_opportunity_score(ms, gp, op, cs)
    IN [tier |-> row.tier,
        population |-> row.population,
        gdp_per_capita |-> row.gdp_per_capita,
        urban_rate |-> row.urban_rate,
        untapped_revenue_potential |-> row.untapped_revenue_potential,
        penetration_rate |-> row.penetration_rate,
        avg_delivery_days |-> row.avg_delivery_days,
        seller_efficiency_score |-> row.seller_efficiency_score,
        market_size_score |-> ms,
        growth_potential_score |-> gp,
        operational_feasibility_score |-> op,
        competitive_score |-> cs,
        combined_opportunity_score |-> score,
        expansion_priority |-> categorize_expansion_priority(score, row.tier, row.population)]

generate_expansion_opportunity_matrix ==
    /\ geo_pc = "matrix"
    /\ \E max_population \in {ColMax(ColumnOf(state_summary, "population"))},
          max_gdp \in {ColMax(ColumnOf(state_summary, "gdp_per_capita"))},
          max_untapped_revenue \in {ColMax(ColumnOf(state_summary, "untapped_revenue_potential"))},
          max_penetration \in {ColMax(ColumnOf(state_summary, "penetration_rate"))},
          max_delivery_days \in {ColMax(ColumnOf(state_summary, "avg_delivery_days"))} :
          state_summary' =
              MaterialiseRows([x \in DOMAIN state_summary |->
                  MatrixRow(state_summary[x], max_population, max_gdp,
                            max_untapped_revenue, max_penetration, max_delivery_days)])
    /\ geo_pc' = "done"
    /\ UNCHANGED <<scoringVars, segmentVars, forecastVars, cleanerVars>>
    /\ UNCHANGED <<masterVars, analysisVars, runVars, loaderVars>>
    /\ UNCHANGED extVars
\* the economic context of a row: round figures in the range of state_data
\* (population in thousands), and a state that state_data does not list
MatrixContexts ==
    {[tier |-> Num(1), population |-> Int2F(4000), gdp_per_capita |-> Int2F(40000),
      urban_rate |-> Frac(9, 10)],
     [tier |-> Num(3), population |-> Int2F(1000), gdp_per_capita |-> Int2F(20000),
      urban_rate |-> Frac(7, 10)],
     [tier |-> NA, population |-> NaN, gdp_per_capita |-> NaN, urban_rate |-> NaN]}

\* (untapped_revenue_potential, penetration_rate) of a listed state: the less
\* penetrated, the more untapped revenue
MatrixPotentials == {<<0, 2>>, <<2, 0>>}

\* avg_delivery_days: missing (no delivered order), delivered before the purchase
\* on average, same day, two days
DeliveryDayChoices == {NaN, Int2F(-2), Int2F(0), Int2F(2)}

SellerEfficiencyChoices == {Int2F(0), Int2F(1)}

MatrixInputRows ==
    {[tier |-> c.tier, population |-> c.population, gdp_per_capita |-> c.gdp_per_capita,
      urban_rate |-> c.urban_rate,
      untapped_revenue_potential |-> IF c.tier.isna THEN NaN ELSE Int2F(p[1]),
      penetration_rate |-> IF c.tier.isna THEN NaN ELSE Int2F(p[2]),
      avg_delivery_days |-> d,
      seller_efficiency_score |-> e] :
        c \in MatrixContexts, p \in MatrixPotentials, d \in DeliveryDayChoices,
        e \in SellerEfficiencyChoices}

InitMatrix ==
    /\ \E N \in 1..MaxSummaryRows :
          \E rows \in [1..N -> MatrixInputRows] :
             /\ \E x \in 1..N : ~rows[x].tier.isna
             /\ state_summary = rows
    /\ geo_pc = "matrix"
    /\ IdleScoring
    /\ IdleSegment
    /\ IdleForecast
    /\ IdleCleaner
    /\ IdleMaster
    /\ IdleAnalysis
    /\ IdleRun
    /\ IdleLoader
    /\ IdleExt

NextMatrix == generate_expansion_opportunity_matrix

SpecMatrix == InitMatrix /\ [][NextMatrix]_vars

----------------------------------------------------------------------------
(* Market expansion: categorize_expansion_priority applied to a summary     *)

\* combined scores in steps of 0.05, which meet every threshold of the rule
PriorityScores == {Frac(k, 20) : k \in 0..20}

PriorityTiers == {NA, Num(1), Num(2), Num(3)}

\* populations in thousands: missing, RR, one million, TO, two million, SE, SP
PriorityPopulations ==
    {NaN, Int2F(652), Int2F(1000), Int2F(1607), Int2F(2000), Int2F(2338), Int2F(46649)}

PriorityCases ==
    [combined_opportunity_score : PriorityScores, tier : PriorityTiers,
     population : PriorityPopulations]

\* state_summary.apply(categorize_expansion_priority, axis=1)
apply_categorize_expansion_priority ==
    /\ geo_pc = "categorize"
    /\ state_summary' =
          [x \in DOMAIN state_summary |->
              [combined_opportunity_score |-> state_summary[x].combined_opportunity_score,
               tier |-> state_summary[x].tier,
               population |-> state_summary[x].population,
               expansion_priority |->
                   categorize_expansion_priority(state_summary[x].combined_opportunity_score,
                                                 state_summary[x].tier,
                                                 state_summary[x].population)]]
    /\ geo_pc' = "done"
    /\ UNCHANGED <<scoringVars, segmentVars, forecastVars, cleanerVars>>
    /\ UNCHANGED <<masterVars, analysisVars, runVars, loaderVars>>
    /\ UNCHANGED extVars
InitPriority ==
    /\ \E c \in PriorityCases : state_summary = <<c>>
    /\ geo_pc = "categorize"
    /\ IdleScoring
    /\ IdleSegment
    /\ IdleForecast
    /\ IdleCleaner
    /\ IdleMaster
    /\ IdleAnalysis
    /\ IdleRun
    /\ IdleLoader
    /\ IdleExt

NextPriority == apply_categorize_expansion_priority

SpecPriority == InitPriority /\ [][NextPriority]_vars

----------------------------------------------------------------------------
(* Seasonal analysis: build_demand_forecasting_model                        *)

\* bound on the calendar months the order data spans
MaxMonths == 14

\* the year of the first month with orders
ObservedYears == {2016, 2017}

\* the model is fitted on at least this many rows
MinModelRows == 10

ForecastHorizon == 3

\* revenue and orders of a month are carried as references: the aggregate of
\* the k-th monthly row, or the prediction of the i-th forecast
Observed(k) == [kind |-> "observed", at |-> k]
Predicted(i) == [kind |-> "predicted", at |-> i]

\* the k-th calendar month (from 0) of a span that starts in month m0 of year y0
SpanMonth(y0, m0, k) ==
    [year |-> y0 + ((m0 - 1 + k) \div 12), month |-> ((m0 - 1 + k) % 12) + 1]

RECURSIVE MonthlyRows(_, _, _, _, _)
\* groupby(['year', 'month']): one row per month of the span that has orders
MonthlyRows(y0, m0, k, n, empty) ==
    IF k >= n THEN <<>>
    ELSE IF k \in empty THEN MonthlyRows(y0, m0, k + 1, n, empty)
    ELSE <<SpanMonth(y0, m0, k)>> \o MonthlyRows(y0, m0, k + 1, n, empty)

\* the lag columns by shift(1..3) and dropna(): the first three rows go
LaggedRows(md) ==
    [j \in 1..(IF Len(md) > 3 THEN Len(md) - 3 ELSE 0) |->
        [year |-> md[j + 3].year,
         month |-> md[j + 3].month,
         revenue |-> Observed(j + 3),
         orders |-> Observed(j + 3),
         revenue_lag_1 |-> Observed(j + 2),
         revenue_lag_2 |-> Observed(j + 1),
         revenue_lag_3 |-> Observed(j),
         orders_lag_1 |-> Observed(j + 2),
         orders_lag_2 |-> Observed(j + 1),
         orders_lag_3 |-> Observed(j)]]

prepare_model_data ==
    /\ forecast_pc = "start"
    /\ model_data' = LaggedRows(monthly_data)
    /\ forecast_pc' = "check"
    /\ UNCHANGED <<monthly_data, fitted_models, forecasts, forecasting_models>>
    /\ UNCHANGED <<scoringVars, segmentVars, geoVars, cleanerVars>>
    /\ UNCHANGED <<masterVars, analysisVars, runVars, loaderVars>>
    /\ UNCHANGED extVars
InsufficientData_Nine(md) == Len(md) < MinModelRows - 1

\* len(model_data) < 10
InsufficientData(md) == Len(md) < MinModelRows

check_model_data ==
    /\ forecast_pc = "check"
    /\ forecast_pc' = IF InsufficientData(model_data) THEN "returned error" ELSE "fit"
    /\ UNCHANGED <<monthly_data, model_data, fitted_models, forecasts, forecasting_models>>
    /\ UNCHANGED <<scoringVars, segmentVars, geoVars, cleanerVars>>
    /\ UNCHANGED <<masterVars, analysisVars, runVars, loaderVars>>
    /\ UNCHANGED extVars
fit_models ==
    /\ forecast_pc = "fit"
    /\ fitted_models' = {"revenue_model", "orders_model"}
    /\ forecast_pc' = "forecast"
    /\ UNCHANGED <<monthly_data, model_data, forecasts, forecasting_models>>
    /\ UNCHANGED <<scoringVars, segmentVars, geoVars, cleanerVars>>
    /\ UNCHANGED <<masterVars, analysisVars, runVars, loaderVars>>
    /\ UNCHANGED extVars
next_month_Skip(last_data, i) == ((last_data.month + i) % 12) + 1

next_month(last_data, i) == ((last_data.month + i - 1) % 12) + 1

next_year(last_data, i) == last_data.year + ((last_data.month + i - 1) \div 12)

\* the lag features of the i-th forecast
next_features(md, fc, i) ==
    LET last_data == md[Len(md)]
    IN IF i = 1
       THEN [revenue_lag_1 |-> last_data.revenue,
             revenue_lag_2 |-> IF Len(md) > 1 THEN md[Len(md) - 1].revenue
                               ELSE last_data.revenue,
             revenue_lag_3 |-> IF Len(md) > 2 THEN md[Len(md) - 2].revenue
                               ELSE last_data.revenue,
             orders_lag_1 |-> last_data.orders,
             orders_lag_2 |-> IF Len(md) > 1 THEN md[Len(md) - 1].orders
                              ELSE last_data.orders,
             orders_lag_3 |-> IF Len(md) > 2 THEN md[Len(md) - 2].orders
                              ELSE last_data.orders]
       ELSE [revenue_lag_1 |-> fc[i - 1].predicted_revenue,
             revenue_lag_2 |-> IF i > 2 THEN fc[i - 2].predicted_revenue
                               ELSE last_data.revenue,
             revenue_lag_3 |-> last_data.revenue,
             orders_lag_1 |-> fc[i - 1].predicted_orders,
             orders_lag_2 |-> IF i > 2 THEN fc[i - 2].predicted_orders
                              ELSE last_data.orders,
             orders_lag_3 |-> last_data.orders]

\* one pass of the loop for i in range(1, 4)
forecast_next_month ==
    /\ forecast_pc = "forecast"
    /\ LET i == Len(forecasts) + 1
           last_data == model_data[Len(model_data)]
       IN /\ forecasts' = Append(forecasts,
                 [year |-> next_year(last_data, i),
                  month |-> next_month(last_data, i),
                  features |-> next_features(model_data, forecasts, i),
                  predicted_revenue |-> Predicted(i),
                  predicted_orders |-> Predicted(i)])
          /\ forecast_pc' = IF i = ForecastHorizon THEN "store" ELSE "forecast"
    /\ UNCHANGED <<monthly_data, model_data, fitted_models, forecasting_models>>
    /\ UNCHANGED <<scoringVars, segmentVars, geoVars, cleanerVars>>
    /\ UNCHANGED <<masterVars, analysisVars, runVars, loaderVars>>
    /\ UNCHANGED extVars
store_forecasting_models ==
    /\ forecast_pc = "store"
    /\ forecasting_models' =
          [revenue_model |-> "fitted", orders_model |-> "fitted", forecasts |-> forecasts]
    /\ forecast_pc' = "returned models"
    /\ UNCHANGED <<monthly_data, model_data, fitted_models, forecasts>>
    /\ UNCHANGED <<scoringVars, segmentVars, geoVars, cleanerVars>>
    /\ UNCHANGED <<masterVars, analysisVars, runVars, loaderVars>>
    /\ UNCHANGED extVars
InitForecast ==
    /\ \E y0 \in ObservedYears, m0 \in 1..12, n \in 0..MaxMonths :
          \E empty \in {{}} \cup {{k} : k \in 0..(n - 1)} :
             monthly_data = MonthlyRows(y0, m0, 0, n, empty)
    /\ model_data = <<>>
    /\ fitted_models = {}
    /\ forecasts = <<>>
    /\ forecasting_models = <<>>
    /\ forecast_pc = "start"
    /\ IdleScoring
    /\ IdleSegment
    /\ IdleGeo
    /\ IdleCleaner
    /\ IdleMaster
    /\ IdleAnalysis
    /\ IdleRun
    /\ IdleLoader
    /\ IdleExt

NextForecast ==
    \/ prepare_model_data
    \/ check_model_data
    \/ fit_models
    \/ forecast_next_month
    \/ store_forecasting_models

SpecForecast == InitForecast /\ [][NextForecast]_vars

----------------------------------------------------------------------------
(* Seasonal analysis: run_complete_seasonal_analysis from the call of       *)
(* build_demand_forecasting_model on. run_pc is the line of the driver that *)
(* runs next; while forecast_pc is not "idle" the driver waits for          *)
(* build_demand_forecasting_model to return.                                *)

\* if not self.forecasting_models: an empty dict is falsy
NoForecastingModels(fm) == fm = <<>>

\* forecasting_results = self.build_demand_forecasting_model()
run_build_demand_forecasting_model ==
    /\ run_pc = "line 1094"
    /\ forecast_pc = "idle"
    /\ forecast_pc' = "start"
    /\ build_calls' = build_calls + 1
    /\ run_pc' = "line 1095"
    /\ UNCHANGED <<monthly_data, model_data, fitted_models, forecasts, forecasting_models>>
    /\ UNCHANGED <<scoringVars, segmentVars, geoVars, cleanerVars>>
    /\ UNCHANGED <<masterVars, analysisVars, loaderVars>>
    /\ UNCHANGED extVars
\* build_demand_forecasting_model returns to its caller, with the error
\* dictionary or with self.forecasting_models
build_demand_forecasting_model_returns ==
    /\ run_pc \notin {"idle", "returned"}
    /\ forecast_pc \in {"returned error", "returned models"}
    /\ forecast_pc' = "idle"
    /\ UNCHANGED <<monthly_data, model_data, fitted_models, forecasts, forecasting_models>>
    /\ UNCHANGED runVars
    /\ UNCHANGED <<scoringVars, segmentVars, geoVars, cleanerVars>>
    /\ UNCHANGED <<masterVars, analysisVars, loaderVars>>
    /\ UNCHANGED extVars
\* variance_metrics = self.calculate_seasonal_variance_metrics()
run_calculate_seasonal_variance_metrics ==
    /\ run_pc = "line 1095"
    /\ forecast_pc = "idle"
    /\ run_pc' = "line 1096"
    /\ UNCHANGED build_calls
    /\ UNCHANGED forecastVars
    /\ UNCHANGED <<scoringVars, segmentVars, geoVars, cleanerVars>>
    /\ UNCHANGED <<masterVars, analysisVars, loaderVars>>
    /\ UNCHANGED extVars
\* generate_inventory_optimization_recommendations: the insights are present,
\* the forecasting models are built when self.forecasting_models is empty
run_generate_inventory_optimization_recommendations ==
    /\ run_pc = "line 1096"
    /\ forecast_pc = "idle"
    /\ IF NoForecastingModels(forecasting_models)
       THEN /\ forecast_pc' = "start"
            /\ build_calls' = build_calls + 1
       ELSE UNCHANGED <<forecast_pc, build_calls>>
    /\ run_pc' = "line 1099"
    /\ UNCHANGED <<monthly_data, model_data, fitted_models, forecasts, forecasting_models>>
    /\ UNCHANGED <<scoringVars, segmentVars, geoVars, cleanerVars>>
    /\ UNCHANGED <<masterVars, analysisVars, loaderVars>>
    /\ UNCHANGED extVars
\* create_seasonal_intelligence_report: the same test of self.forecasting_models;
\* 'inventory_recommendations' is in self.insights by now
run_create_seasonal_intelligence_report ==
    /\ run_pc = "line 1099"
    /\ forecast_pc = "idle"
    /\ IF NoForecastingModels(forecasting_models)
       THEN /\ forecast_pc' = "start"
            /\ build_calls' = build_calls + 1
       ELSE UNCHANGED <<forecast_pc, build_calls>>
    /\ run_pc' = "line 1102"
    /\ UNCHANGED <<monthly_data, model_data, fitted_models, forecasts, forecasting_models>>
    /\ UNCHANGED <<scoringVars, segmentVars, geoVars, cleanerVars>>
    /\ UNCHANGED <<masterVars, analysisVars, loaderVars>>
    /\ UNCHANGED extVars
\* return complete_results
run_complete_seasonal_analysis_returns ==
    /\ run_pc = "line 1102"
    /\ forecast_pc = "idle"
    /\ run_pc' = "returned"
    /\ UNCHANGED build_calls
    /\ UNCHANGED forecastVars
    /\ UNCHANGED <<scoringVars, segmentVars, geoVars, cleanerVars>>
    /\ UNCHANGED <<masterVars, analysisVars, loaderVars>>
    /\ UNCHANGED extVars
\* the order data spans at least one month
InitSeasonalRun ==
    /\ \E y0 \in ObservedYears, m0 \in 1..12, n \in 1..MaxMonths :
          \E empty \in {{}} \cup {{k} : k \in 1..(n - 1)} :
             monthly_data = MonthlyRows(y0, m0, 0, n, empty)
    /\ model_data = <<>>
    /\ fitted_models = {}
    /\ forecasts = <<>>
    /\ forecasting_models = <<>>
    /\ forecast_pc = "idle"
    /\ run_pc = "line 1094"
    /\ build_calls = 0
    /\ IdleScoring
    /\ IdleSegment
    /\ IdleGeo
    /\ IdleCleaner
    /\ IdleMaster
    /\ IdleAnalysis
    /\ IdleLoader
    /\ IdleExt

NextSeasonalRun ==
    \/ run_build_demand_forecasting_model
    \/ build_demand_forecasting_model_returns
    \/ run_calculate_seasonal_variance_metrics
    \/ run_generate_inventory_optimization_recommendations
    \/ run_create_seasonal_intelligence_report
    \/ run_complete_seasonal_analysis_returns
    \/ prepare_model_data
    \/ check_model_data
    \/ fit_models
    \/ forecast_next_month
    \/ store_forecasting_models

SpecSeasonalRun == InitSeasonalRun /\ [][NextSeasonalRun]_vars

----------------------------------------------------------------------------
(* Data cleaning: DataCleaner.clean_all_data, run on raw data and then on   *)
(* its own output.  The tables carry the columns the cleaning rules read.   *)

\* bound on the rows of the orders table
MaxOrders == 2

\* a cell of a date column: missing, a string that is a date, a string that is
\* no date, a datetime64 value
NaT == [kind |-> "NaT", day |-> 0]
DateText(d) == [kind |-> "str", day |-> d]
Unparseable == [kind |-> "bad", day |-> 0]
Timestamp(d) == [kind |-> "datetime64", day |-> d]

\* Series.isna() on a date column
IsNaT(c) == c.kind = "NaT"

\* pd.to_datetime(errors='coerce'): a string that is no date becomes NaT
to_datetime_coerce(c) == IF c.kind \in {"str", "datetime64"} THEN Timestamp(c.day) ELSE NaT

\* a missing product_category_name
MissingName == "NaN"

LogEntry(action, dataset, n) == [action |-> action, dataset |-> dataset, count |-> n]

\* the log after an action that reports n cells, which is logged only when n > 0
Logged(log, action, dataset, n) ==
    IF n > 0 THEN Append(log, LogEntry(action, dataset, n)) ELSE log

\* Series.median() of column col over the rows S, which all hold a value
MedianOver(rows, col, S) ==
    LET n == Cardinality(S)
        rank(i) == Cardinality({j \in S : \/ FLt(rows[j][col], rows[i][col])
                                          \/ (FEq(rows[j][col], rows[i][col]) /\ j < i)}) + 1
        kth(k) == rows[CHOOSE i \in S : rank(i) = k][col]
    IN IF n = 0 THEN NaN
       ELSE IF n % 2 = 1 THEN kth((n + 1) \div 2)
       ELSE FDiv(FAdd(kth(n \div 2), kth((n \div 2) + 1)), Int2F(2))

\* df[col].median(), and the median of the group of key column `by` with value g
Median(rows, col) == MedianOver(rows, col, {i \in DOMAIN rows : ~IsNaN(rows[i][col])})

GroupMedian(rows, col, by, g) ==
    MedianOver(rows, col, {i \in DOMAIN rows : rows[i][by] = g /\ ~IsNaN(rows[i][col])})

\* the same over the rows with a positive value: df[df[col] > 0]
PositiveMedian(rows, col) ==
    MedianOver(rows, col, {i \in DOMAIN rows : Positive(rows[i][col])})

PositiveGroupMedian(rows, col, by, g) ==
    MedianOver(rows, col, {i \in DOMAIN rows : rows[i][by] = g /\ Positive(rows[i][col])})

NonPositive(a) == FLe(a, Int2F(0))

\* df.loc[mask, col] = values: the cells of column col at the indices of values
SetCells(rows, col, values) ==
    MaterialiseRows([i \in DOMAIN rows |->
        IF i \in DOMAIN values THEN [rows[i] EXCEPT ![col] = values[i]] ELSE rows[i]])

delivered_mask_AnyStatus(rows) ==
    {i \in DOMAIN rows : /\ IsNaT(rows[i].order_delivered_customer_date)
                         /\ ~IsNaT(rows[i].order_estimated_delivery_date)}

\* delivered, without a delivery date, with an estimated date
delivered_mask(rows) ==
    {i \in DOMAIN rows : /\ rows[i].order_status = "delivered"
                         /\ IsNaT(rows[i].order_delivered_customer_date)
                         /\ ~IsNaT(rows[i].order_estimated_delivery_date)}

\* without a carrier date, with a delivery date
carrier_missing(rows) ==
    {i \in DOMAIN rows : /\ IsNaT(rows[i].order_delivered_carrier_date)
                         /\ ~IsNaT(rows[i].order_delivered_customer_date)}

FillDeliveryDates(rows) ==
    SetCells(rows, "order_delivered_customer_date",
             [i \in delivered_mask(rows) |-> rows[i].order_estimated_delivery_date])

\* pd.to_datetime(...) without errors='coerce' raises on a string that is no date
CarrierDateRaises(rows) ==
    \E i \in carrier_missing(rows) : rows[i].order_delivered_customer_date.kind = "bad"

FillCarrierDates_TwoDays(rows) ==
    SetCells(rows, "order_delivered_carrier_date",
             [i \in carrier_missing(rows) |->
                 Timestamp(rows[i].order_delivered_customer_date.day - 2)])

\* one day before the delivery to the customer
FillCarrierDates(rows) ==
    SetCells(rows, "order_delivered_carrier_date",
             [i \in carrier_missing(rows) |->
                 Timestamp(rows[i].order_delivered_customer_date.day - 1)])

missing_category(rows) == {i \in DOMAIN rows : rows[i].product_category_name = MissingName}

FillCategories(rows) ==
    SetCells(rows, "product_category_name", [i \in missing_category(rows) |-> "unknown"])

numeric_cols ==
    <<"product_weight_g", "product_length_cm", "product_height_cm", "product_width_cm">>

missing_mask(rows, col) == {i \in DOMAIN rows : IsNaN(rows[i][col])}

\* the median of the category, then the overall median for what is still missing
ImputeByCategory(rows, col) ==
    SetCells(rows, col,
             [i \in missing_mask(rows, col) |->
                 GroupMedian(rows, col, "product_category_name",
                             rows[i].product_category_name)])

ImputeOverall(rows, col) ==
    SetCells(rows, col, [i \in missing_mask(rows, col) |-> Median(rows, col)])

ImputeMissing(rows, col) == ImputeOverall(ImputeByCategory(rows, col), col)

invalid_values(rows, col) == {i \in DOMAIN rows : NonPositive(rows[i][col])}

\* the median of the positive values of the group, where there is one
FixByGroup(rows, col, by) ==
    LET of_group(i) == PositiveGroupMedian(rows, col, by, rows[i][by])
    IN SetCells(rows, col,
                [i \in {j \in invalid_values(rows, col) : Positive(of_group(j))} |->
                    of_group(i)])

\* products: the overall median of the positive values, if there is one
FixInvalidDimensions(rows, col) ==
    LET fixed == FixByGroup(rows, col, "product_category_name")
    IN SetCells(fixed, col,
                [i \in {j \in invalid_values(fixed, col) :
                            Positive(PositiveMedian(fixed, col))} |->
                    PositiveMedian(fixed, col)])

\* payments: the overall median of the positive values, NaN if there is none
FixInvalidPayments(rows) ==
    LET fixed == FixByGroup(rows, "payment_value", "payment_type")
    IN SetCells(fixed, "payment_value",
                [i \in invalid_values(fixed, "payment_value") |->
                    PositiveMedian(fixed, "payment_value")])

RECURSIVE CleanDimensions(_, _, _, _)
\* for col in numeric_cols, from the k-th on: the rows and the log after the loop;
\* products_df[col] raises KeyError for a column the table does not have
CleanDimensions(rows, columns, log, k) ==
    IF k > Len(numeric_cols) THEN [rows |-> rows, log |-> log, err |-> "none"]
    ELSE IF numeric_cols[k] \notin columns THEN [rows |-> rows, log |-> log, err |-> "KeyError"]
    ELSE LET col == numeric_cols[k]
             imputed == IF missing_mask(rows, col) = {} THEN rows
                        ELSE ImputeMissing(rows, col)
             log1 == Logged(log, "IMPUTE_MISSING_DIMENSIONS", "products",
                            Cardinality(missing_mask(rows, col)))
             fixed == IF invalid_values(imputed, col) = {} THEN imputed
                      ELSE FixInvalidDimensions(imputed, col)
             log2 == Logged(log1, "FIX_INVALID_DIMENSIONS", "products",
                            Cardinality(invalid_values(imputed, col)))
         IN CleanDimensions(fixed, columns, log2, k + 1)

Has(ds, table) == table \in DOMAIN ds

WithRows(ds, table, rows) ==
    IF Has(ds, table) THEN [ds EXCEPT ![table] = [@ EXCEPT !.rows = rows]] ELSE ds

RowsOf(ds, table) == IF Has(ds, table) THEN ds[table].rows ELSE <<>>

\* df[col] for a column that df does not have raises KeyError
Lacks(ds, table, cols) == ~(cols \subseteq ds[table].columns)

\* The blocks of clean_missing_values work on s = [ds, log, err]: self.datasets,
\* self.cleaning_log and the exception raised so far ("none" if none).  A block
\* assigns its table to self.datasets at its end, so a block that raises leaves
\* its table as it was.

\* lines 58-95
OrdersBlock(s) ==
    IF s.err # "none" \/ ~Has(s.ds, "orders") THEN s
    ELSE IF Lacks(s.ds, "orders", {"order_status", "order_delivered_customer_date",
                                   "order_estimated_delivery_date"})
    THEN [s EXCEPT !.err = "KeyError"]
    ELSE LET orders == s.ds["orders"].rows
             delivered == FillDeliveryDates(orders)
             log1 == Logged(s.log, "IMPUTE_MISSING_DELIVERY_DATE", "orders",
                            Cardinality(delivered_mask(orders)))
         IN IF Lacks(s.ds, "orders", {"order_delivered_carrier_date"})
            THEN [s EXCEPT !.log = log1, !.err = "KeyError"]
            ELSE IF CarrierDateRaises(delivered)
            THEN [s EXCEPT !.log = log1, !.err = "ValueError"]
            ELSE [ds |-> WithRows(s.ds, "orders", FillCarrierDates(delivered)),
                  log |-> Logged(log1, "IMPUTE_MISSING_CARRIER_DATE", "orders",
                                 Cardinality(carrier_missing(delivered))),
                  err |-> "none"]

\* lines 98-164
ProductsBlock(s) ==
    IF s.err # "none" \/ ~Has(s.ds, "products") THEN s
    ELSE IF Lacks(s.ds, "products", {"product_category_name"})
    THEN [s EXCEPT !.err = "KeyError"]
    ELSE LET products == s.ds["products"].rows
             cleaned == CleanDimensions(FillCategories(products), s.ds["products"].columns,
                            Logged(s.log, "FILL_MISSING_CATEGORY", "products",
                                   Cardinality(missing_category(products))),
                            1)
         IN [ds |-> IF cleaned.err = "none" THEN WithRows(s.ds, "products", cleaned.rows)
                    ELSE s.ds,
             log |-> cleaned.log,
             err |-> cleaned.err]

\* lines 168-180: the comments are counted, nothing is filled
ReviewsBlock(s) ==
    IF s.err # "none" \/ ~Has(s.ds, "order_reviews") THEN s
    ELSE IF Lacks(s.ds, "order_reviews", {"review_comment_title", "review_comment_message"})
    THEN [s EXCEPT !.err = "KeyError"]
    ELSE s

\* lines 183-209: payment_type is read only if there is a value to fix
PaymentsBlock(s) ==
    IF s.err # "none" \/ ~Has(s.ds, "order_payments") THEN s
    ELSE IF Lacks(s.ds, "order_payments", {"payment_value"})
    THEN [s EXCEPT !.err = "KeyError"]
    ELSE LET payments == s.ds["order_payments"].rows
         IN IF invalid_values(payments, "payment_value") = {} THEN s
            ELSE IF Lacks(s.ds, "order_payments", {"payment_type"})
            THEN [s EXCEPT !.err = "KeyError"]
            ELSE [ds |-> WithRows(s.ds, "order_payments", FixInvalidPayments(payments)),
                  log |-> Logged(s.log, "FIX_INVALID_PAYMENTS", "order_payments",
                                 Cardinality(invalid_values(payments, "payment_value"))),
                  err |-> "none"]

\* a method that raised ends clean_all_data with its exception
Continue(err, next_method) == IF err = "none" THEN next_method ELSE err

clean_missing_values ==
    /\ cleaner_pc = "clean_missing_values"
    /\ \E s \in {PaymentsBlock(ReviewsBlock(ProductsBlock(OrdersBlock(
                    [ds |-> datasets, log |-> cleaning_log, err |-> "none"]))))} :
          /\ datasets' = s.ds
          /\ cleaning_log' = s.log
          /\ cleaner_pc' = Continue(s.err, "remove_duplicates")
    /\ UNCHANGED <<raw_datasets, cleaner_run>>
    /\ UNCHANGED <<scoringVars, segmentVars, geoVars, forecastVars>>
    /\ UNCHANGED <<masterVars, analysisVars, runVars, loaderVars>>
    /\ UNCHANGED extVars
RECURSIVE DropDuplicates(_)
\* DataFrame.drop_duplicates(): the first of equal rows is kept
DropDuplicates(rows) ==
    IF rows = <<>> THEN <<>>
    ELSE LET front == DropDuplicates(SubSeq(rows, 1, Len(rows) - 1))
             last == rows[Len(rows)]
         IN IF \E i \in DOMAIN front : front[i] = last THEN front ELSE Append(front, last)

RECURSIVE DropDuplicatesOn_KeepLast(_, _)
DropDuplicatesOn_KeepLast(rows, col) ==
    IF rows = <<>> THEN <<>>
    ELSE LET rest == DropDuplicatesOn_KeepLast(SubSeq(rows, 2, Len(rows)), col)
         IN IF \E i \in DOMAIN rest : rest[i][col] = rows[1][col]
            THEN rest ELSE <<rows[1]>> \o rest

RECURSIVE DropDuplicatesOn(_, _)
\* DataFrame.drop_duplicates(subset=[col], keep='first')
DropDuplicatesOn(rows, col) ==
    IF rows = <<>> THEN <<>>
    ELSE LET front == DropDuplicatesOn(SubSeq(rows, 1, Len(rows) - 1), col)
             last == rows[Len(rows)]
         IN IF \E i \in DOMAIN front : front[i][col] = last[col]
            THEN front ELSE Append(front, last)

\* lines 229-234
DeduplicateGeolocation(rows) ==
    DropDuplicatesOn(DropDuplicates(rows), "geolocation_zip_code_prefix")

\* lines 224-245 raise before the table is assigned: KeyError for a table without
\* the zip-code column, ZeroDivisionError in total_removed/original_count for a
\* table without rows
GeolocationRaises(ds) ==
    IF ~Has(ds, "geolocation") THEN "none"
    ELSE IF Lacks(ds, "geolocation", {"geolocation_zip_code_prefix"}) THEN "KeyError"
    ELSE IF Len(ds["geolocation"].rows) = 0 THEN "ZeroDivisionError"
    ELSE "none"

remove_duplicates ==
    /\ cleaner_pc = "remove_duplicates"
    /\ IF GeolocationRaises(datasets) # "none"
       THEN UNCHANGED datasets
       ELSE datasets' =
               [t \in DOMAIN datasets |->
                   [datasets[t] EXCEPT !.rows = IF t = "geolocation"
                                                THEN DeduplicateGeolocation(@)
                                                ELSE DropDuplicates(@)]]
    /\ cleaner_pc' = Continue(GeolocationRaises(datasets), "convert_data_types")
    /\ UNCHANGED <<raw_datasets, cleaning_log, cleaner_run>>
    /\ UNCHANGED <<scoringVars, segmentVars, geoVars, forecastVars>>
    /\ UNCHANGED <<masterVars, analysisVars, runVars, loaderVars>>
    /\ UNCHANGED extVars
\* the date columns of orders that the rows carry
date_columns ==
    {"order_purchase_timestamp", "order_delivered_carrier_date",
     "order_delivered_customer_date", "order_estimated_delivery_date"}

ConvertDates(rows) ==
    MaterialiseRows([i \in DOMAIN rows |->
        [c \in DOMAIN rows[i] |->
            IF c \in date_columns THEN to_datetime_coerce(rows[i][c]) ELSE rows[i][c]]])

\* astype('category') changes the dtype of a column, not its values
convert_data_types ==
    /\ cleaner_pc = "convert_data_types"
    /\ datasets' = WithRows(datasets, "orders", ConvertDates(RowsOf(datasets, "orders")))
    /\ cleaner_pc' = "merge_product_categories"
    /\ UNCHANGED <<raw_datasets, cleaning_log, cleaner_run>>
    /\ UNCHANGED <<scoringVars, segmentVars, geoVars, forecastVars>>
    /\ UNCHANGED <<masterVars, analysisVars, runVars, loaderVars>>
    /\ UNCHANGED extVars
\* the columns of left.merge(right, on=key, how='left'): a column of both frames
\* other than the key is kept twice, with the suffixes _x and _y
MergedColumns(left, right, key) ==
    LET both == (left \cap right) \ {key}
    IN ((left \cup right) \ both) \cup {c \o "_x" : c \in both} \cup {c \o "_y" : c \in both}

\* the translation of a category name, NaN where product_categories has none
Translation(categories, name) ==
    IF \E j \in DOMAIN categories : categories[j].product_category_name = name
    THEN categories[CHOOSE j \in DOMAIN categories :
                        categories[j].product_category_name = name].product_category_name_english
    ELSE MissingName

\* the translated name, the Portuguese name for a category without translation
MergeRows(products, categories) ==
    SetCells(products, "product_category_name_english",
             [i \in DOMAIN products |->
                 IF Translation(categories, products[i].product_category_name) = MissingName
                 THEN products[i].product_category_name
                 ELSE Translation(categories, products[i].product_category_name)])

\* lines 357-402: merge raises KeyError for a frame without the key column, and
\* line 371 for a merged frame without product_category_name_english
merge_product_categories ==
    /\ cleaner_pc = "merge_product_categories"
    /\ IF Has(datasets, "products") /\ Has(datasets, "product_categories")
       THEN \E merged \in {MergedColumns(datasets["products"].columns,
                                         datasets["product_categories"].columns,
                                         "product_category_name")} :
               IF \/ Lacks(datasets, "products", {"product_category_name"})
                  \/ Lacks(datasets, "product_categories", {"product_category_name"})
                  \/ "product_category_name_english" \notin merged
               THEN /\ cleaner_pc' = "KeyError"
                    /\ UNCHANGED datasets
               ELSE /\ datasets' =
                          [datasets EXCEPT !["products"] =
                              [columns |-> merged,
                               rows |-> MergeRows(datasets["products"].rows,
                                                  datasets["product_categories"].rows)]]
                    /\ cleaner_pc' = "create_derived_features"
       ELSE /\ cleaner_pc' = "create_derived_features"
            /\ UNCHANGED datasets
    /\ UNCHANGED <<raw_datasets, cleaning_log, cleaner_run>>
    /\ UNCHANGED <<scoringVars, segmentVars, geoVars, forecastVars>>
    /\ UNCHANGED <<masterVars, analysisVars, runVars, loaderVars>>
    /\ UNCHANGED extVars
\* orders with a delivery date and a purchase timestamp, and those of them with
\* an estimated date
delivered_orders(rows) ==
    {i \in DOMAIN rows : /\ ~IsNaT(rows[i].order_delivered_customer_date)
                         /\ ~IsNaT(rows[i].order_purchase_timestamp)}

estimate_mask(rows) ==
    {i \in delivered_orders(rows) : ~IsNaT(rows[i].order_estimated_delivery_date)}

DeliveryMetrics_StrictlyEarly(rows) ==
    MaterialiseRows([i \in DOMAIN rows |->
        LET row == rows[i]
            days == row.order_delivered_customer_date.day - row.order_purchase_timestamp.day
            late == row.order_delivered_customer_date.day - row.order_estimated_delivery_date.day
        IN [row EXCEPT
               !.delivery_days = IF i \in delivered_orders(rows) THEN Num(days) ELSE @,
               !.delivery_vs_estimate_days = IF i \in estimate_mask(rows) THEN Num(late) ELSE @,
               !.on_time_delivery = IF i \in estimate_mask(rows)
                                    THEN (IF late < 0 THEN "True" ELSE "False") ELSE @]])

\* the three delivery columns; on time is delivered on or before the estimate
DeliveryMetrics(rows) ==
    MaterialiseRows([i \in DOMAIN rows |->
        LET row == rows[i]
            days == row.order_delivered_customer_date.day - row.order_purchase_timestamp.day
            late == row.order_delivered_customer_date.day - row.order_estimated_delivery_date.day
        IN [row EXCEPT
               !.delivery_days = IF i \in delivered_orders(rows) THEN Num(days) ELSE @,
               !.delivery_vs_estimate_days = IF i \in estimate_mask(rows) THEN Num(late) ELSE @,
               !.on_time_delivery = IF i \in estimate_mask(rows)
                                    THEN (IF late <= 0 THEN "True" ELSE "False") ELSE @]])

DeliveryColumns(rows) ==
    (IF delivered_orders(rows) # {} THEN {"delivery_days"} ELSE {})
    \cup (IF estimate_mask(rows) # {}
          THEN {"delivery_vs_estimate_days", "on_time_delivery"} ELSE {})
    \cup {"order_year", "order_month", "order_day_of_week", "order_hour"}

\* length * height * width, and weight / volume where both are positive
ProductMetrics(rows) ==
    MaterialiseRows([i \in DOMAIN rows |->
        LET row == rows[i]
            volume == FMul(FMul(row.product_length_cm, row.product_height_cm),
                           row.product_width_cm)
        IN [row EXCEPT
               !.product_volume_cm3 = volume,
               !.weight_volume_ratio =
                   IF Positive(volume) /\ Positive(row.product_weight_g)
                   THEN FDiv(row.product_weight_g, volume) ELSE @]])

ProductColumns(rows) ==
    {"product_volume_cm3"}
    \cup (IF \E i \in DOMAIN rows : /\ Positive(ProductMetrics(rows)[i].product_volume_cm3)
                                    /\ Positive(rows[i].product_weight_g)
          THEN {"weight_volume_ratio"} ELSE {})

\* lines 471-514
DeliveryFeaturesBlock(s) ==
    IF s.err # "none" \/ ~Has(s.ds, "orders") THEN s
    ELSE IF Lacks(s.ds, "orders", {"order_delivered_customer_date", "order_purchase_timestamp"})
    THEN [s EXCEPT !.err = "KeyError"]
    ELSE LET orders == s.ds["orders"]
         IN IF /\ delivered_orders(orders.rows) # {}
               /\ Lacks(s.ds, "orders", {"order_estimated_delivery_date"})
            THEN [s EXCEPT !.err = "KeyError"]
            ELSE [s EXCEPT !.ds["orders"] =
                     [columns |-> orders.columns \cup DeliveryColumns(orders.rows),
                      rows |-> DeliveryMetrics(orders.rows)]]

dimension_cols == {"product_length_cm", "product_height_cm", "product_width_cm"}

\* lines 517-546: skipped without the three dimensions; product_weight_g is read
\* without a test
ProductFeaturesBlock(s) ==
    IF s.err # "none" \/ ~Has(s.ds, "products") THEN s
    ELSE IF Lacks(s.ds, "products", dimension_cols) THEN s
    ELSE IF Lacks(s.ds, "products", {"product_weight_g"}) THEN [s EXCEPT !.err = "KeyError"]
    ELSE LET products == s.ds["products"]
         IN [s EXCEPT !.ds["products"] =
                [columns |-> products.columns \cup ProductColumns(products.rows),
                 rows |-> ProductMetrics(products.rows)]]

create_derived_features ==
    /\ cleaner_pc = "create_derived_features"
    /\ \E s \in {ProductFeaturesBlock(DeliveryFeaturesBlock(
                    [ds |-> datasets, log |-> cleaning_log, err |-> "none"]))} :
          /\ datasets' = s.ds
          /\ cleaner_pc' = Continue(s.err, "validate_foreign_keys")
    /\ UNCHANGED <<raw_datasets, cleaning_log, cleaner_run>>
    /\ UNCHANGED <<scoringVars, segmentVars, geoVars, forecastVars>>
    /\ UNCHANGED <<masterVars, analysisVars, runVars, loaderVars>>
    /\ UNCHANGED extVars
\* every relationship is read under a test of its tables and key columns; it
\* writes validation_results and the report, the tables are returned as they are
validate_foreign_keys ==
    /\ cleaner_pc = "validate_foreign_keys"
    /\ cleaner_pc' = "returned"
    /\ UNCHANGED <<raw_datasets, datasets, cleaning_log, cleaner_run>>
    /\ UNCHANGED <<scoringVars, segmentVars, geoVars, forecastVars>>
    /\ UNCHANGED <<masterVars, analysisVars, runVars, loaderVars>>
    /\ UNCHANGED extVars
\* DataCleaner(cleaned_datasets).clean_all_data(): a cleaner with an empty log on
\* the tables the first run returned
clean_cleaned_data ==
    /\ cleaner_pc = "returned"
    /\ cleaner_run = 1
    /\ cleaner_run' = 2
    /\ cleaning_log' = <<>>
    /\ cleaner_pc' = "clean_missing_values"
    /\ raw_datasets' = datasets
    /\ UNCHANGED datasets
    /\ UNCHANGED <<scoringVars, segmentVars, geoVars, forecastVars>>
    /\ UNCHANGED <<masterVars, analysisVars, runVars, loaderVars>>
    /\ UNCHANGED extVars
OrderRow(status, purchase, carrier, customer, estimated) ==
    [order_status |-> status,
     order_purchase_timestamp |-> purchase,
     order_delivered_carrier_date |-> carrier,
     order_delivered_customer_date |-> customer,
     order_estimated_delivery_date |-> estimated,
     delivery_days |-> NA,
     delivery_vs_estimate_days |-> NA,
     on_time_delivery |-> "NaN"]

\* raw orders: complete; delivered without delivery date; without carrier date;
\* not delivered yet; delivered with a delivery date that is no date, with and
\* without carrier date; delivered later than estimated without any date to fill from
OrderProfiles ==
    {OrderRow("delivered", DateText(5), DateText(8), DateText(20), DateText(25)),
     OrderRow("delivered", DateText(5), DateText(8), NaT, DateText(25)),
     OrderRow("delivered", DateText(5), NaT, DateText(30), DateText(25)),
     OrderRow("shipped", DateText(5), NaT, NaT, DateText(25)),
     OrderRow("delivered", DateText(5), DateText(8), Unparseable, DateText(25)),
     OrderRow("delivered", DateText(5), NaT, Unparseable, DateText(25)),
     OrderRow("delivered", DateText(5), NaT, NaT, NaT)}

ProductRow(category, weight, length) ==
    [product_category_name |-> category,
     product_weight_g |-> weight,
     product_length_cm |-> length,
     product_height_cm |-> Int2F(10),
     product_width_cm |-> Int2F(10),
     product_category_name_english |-> MissingName,
     product_volume_cm3 |-> NaN,
     weight_volume_ratio |-> NaN]

\* raw products: a missing weight next to one of its category; a missing category
\* and a zero weight; a weight column without any value; two equal rows; a
\* category without translation
ProductTables ==
    {<<ProductRow("cama_mesa_banho", Int2F(100), Int2F(20)),
       ProductRow("cama_mesa_banho", NaN, Int2F(30))>>,
     <<ProductRow(MissingName, Int2F(300), Int2F(20)),
       ProductRow("pc_gamer", Int2F(0), NaN)>>,
     <<ProductRow("cama_mesa_banho", NaN, Int2F(20))>>,
     <<ProductRow("cama_mesa_banho", Int2F(100), Int2F(20)),
       ProductRow("cama_mesa_banho", Int2F(100), Int2F(20))>>,
     <<ProductRow("pc_gamer", Int2F(200), Int2F(20))>>}

PaymentRow(type, value) == [payment_type |-> type, payment_value |-> Int2F(value)]

\* raw payments: positive; a zero next to one of its type; a negative of another
\* type; no positive value at all
PaymentTables ==
    {<<PaymentRow("credit_card", 50), PaymentRow("credit_card", 100)>>,
     <<PaymentRow("credit_card", 50), PaymentRow("credit_card", 0)>>,
     <<PaymentRow("credit_card", 50), PaymentRow("voucher", -10)>>,
     <<PaymentRow("voucher", 0)>>}

\* product_category_name_translation.csv
CategoryRows ==
    <<[product_category_name |-> "cama_mesa_banho",
       product_category_name_english |-> "bed_bath_table"]>>

RawTable(t, orders, products, payments) ==
    IF t = "orders"
    THEN [columns |-> {"order_status", "order_purchase_timestamp",
                       "order_delivered_carrier_date", "order_delivered_customer_date",
                       "order_estimated_delivery_date"},
          rows |-> orders]
    ELSE IF t = "products"
    THEN [columns |-> {"product_category_name", "product_weight_g", "product_length_cm",
                       "product_height_cm", "product_width_cm"},
          rows |-> products]
    ELSE IF t = "order_payments"
    THEN [columns |-> {"payment_type", "payment_value"}, rows |-> payments]
    ELSE [columns |-> {"product_category_name", "product_category_name_english"},
          rows |-> CategoryRows]

\* the tables the loader found: product_categories is there or not
LoadedTables ==
    {{"orders", "products", "order_payments"},
     {"orders", "products", "order_payments", "product_categories"}}

InitCleaner ==
    /\ \E N \in 1..MaxOrders :
          \E orders \in [1..N -> OrderProfiles], products \in ProductTables,
             payments \in PaymentTables, loaded \in LoadedTables :
             datasets = [t \in loaded |-> RawTable(t, orders, products, payments)]
    /\ raw_datasets = datasets
    /\ cleaning_log = <<>>
    /\ cleaner_run = 1
    /\ cleaner_pc = "clean_missing_values"
    /\ IdleScoring
    /\ IdleSegment
    /\ IdleGeo
    /\ IdleForecast
    /\ IdleMaster
    /\ IdleAnalysis
    /\ IdleRun
    /\ IdleLoader
    /\ IdleExt

NextCleaner ==
    \/ clean_missing_values
    \/ remove_duplicates
    \/ convert_data_types
    \/ merge_product_categories
    \/ create_derived_features
    \/ validate_foreign_keys
    \/ clean_cleaned_data

SpecCleaner == InitCleaner /\ [][NextCleaner]_vars

\* The cleaner on mappings that lack tables or columns

GeoRow(zip, lat) == [geolocation_zip_code_prefix |-> zip, geolocation_lat |-> lat]

ReviewRow(title, message) ==
    [review_comment_title |-> title, review_comment_message |-> message]

AllTables ==
    {"orders", "products", "order_payments", "product_categories", "geolocation",
     "order_reviews"}

\* a table of each name with all its columns and with rows that every rule can
\* clean: a delivery date and a carrier date to fill, a payment value to fix, a
\* repeated zip-code prefix, a review without comment
CompleteTable(t) ==
    IF t = "geolocation"
    THEN [columns |-> {"geolocation_zip_code_prefix", "geolocation_lat"},
          rows |-> <<GeoRow(1, 1), GeoRow(1, 2)>>]
    ELSE IF t = "order_reviews"
    THEN [columns |-> {"review_comment_title", "review_comment_message"},
          rows |-> <<ReviewRow(MissingName, MissingName)>>]
    ELSE RawTable(t,
                  <<OrderRow("delivered", DateText(5), NaT, NaT, DateText(25))>>,
                  <<ProductRow("cama_mesa_banho", Int2F(100), Int2F(20))>>,
                  <<PaymentRow("credit_card", 50), PaymentRow("credit_card", 0)>>)

\* the table without column c
WithoutColumn(table, c) ==
    [columns |-> table.columns \ {c},
     rows |-> MaterialiseRows([i \in DOMAIN table.rows |->
                 [f \in (DOMAIN table.rows[i]) \ {c} |-> table.rows[i][f]]])]

\* any subset of the tables, all complete or one of them without one of its columns
InitCleanerAbsent ==
    /\ \E loaded \in SUBSET AllTables :
          \/ datasets = [t \in loaded |-> CompleteTable(t)]
          \/ \E short \in loaded :
                \E c \in CompleteTable(short).columns :
                   datasets = [t \in loaded |-> IF t = short
                                                THEN WithoutColumn(CompleteTable(t), c)
                                                ELSE CompleteTable(t)]
    /\ raw_datasets = datasets
    /\ cleaning_log = <<>>
    /\ cleaner_run = 1
    /\ cleaner_pc = "clean_missing_values"
    /\ IdleScoring
    /\ IdleSegment
    /\ IdleGeo
    /\ IdleForecast
    /\ IdleMaster
    /\ IdleAnalysis
    /\ IdleRun
    /\ IdleLoader
    /\ IdleExt

SpecCleanerAbsent == InitCleanerAbsent /\ [][NextCleaner]_vars

\* The cleaner on a geolocation table

\* bound on the rows of the geolocation table
MaxGeoRows == 4

GeoRows == {GeoRow(zip, lat) : zip \in 1..2, lat \in 1..2}

\* a geolocation table of 0..MaxGeoRows rows
InitGeolocation ==
    /\ \E n \in 0..MaxGeoRows :
          \E rows \in [1..n -> GeoRows] :
             datasets = [t \in {"geolocation"} |->
                            [columns |-> CompleteTable(t).columns, rows |-> rows]]
    /\ raw_datasets = datasets
    /\ cleaning_log = <<>>
    /\ cleaner_run = 1
    /\ cleaner_pc = "clean_missing_values"
    /\ IdleScoring
    /\ IdleSegment
    /\ IdleGeo
    /\ IdleForecast
    /\ IdleMaster
    /\ IdleAnalysis
    /\ IdleRun
    /\ IdleLoader
    /\ IdleExt

SpecGeolocation == InitGeolocation /\ [][NextCleaner]_vars

\* The cleaner on an orders table

\* raw orders of every combination of status, carrier date, delivery date (missing,
\* a date, no date) and estimated date
OrderCases ==
    {OrderRow(status, DateText(5), carrier, customer, estimated) :
        status \in {"delivered", "shipped"},
        carrier \in {NaT, DateText(8)},
        customer \in {NaT, DateText(20), Unparseable},
        estimated \in {NaT, DateText(25)}}

InitOrders ==
    /\ \E N \in 1..MaxOrders :
          \E orders \in [1..N -> OrderCases] :
             datasets = [t \in {"orders"} |->
                            [columns |-> CompleteTable(t).columns, rows |-> orders]]
    /\ raw_datasets = datasets
    /\ cleaning_log = <<>>
    /\ cleaner_run = 1
    /\ cleaner_pc = "clean_missing_values"
    /\ IdleScoring
    /\ IdleSegment
    /\ IdleGeo
    /\ IdleForecast
    /\ IdleMaster
    /\ IdleAnalysis
    /\ IdleRun
    /\ IdleLoader
    /\ IdleExt

SpecOrders == InitOrders /\ [][NextCleaner]_vars

\* The cleaner on orders with and without purchase timestamp

\* raw orders of every combination of status, purchase timestamp (missing, a
\* date, no date), delivery date and estimated date
FilledOrderCases ==
    {OrderRow(status, purchase, DateText(8), customer, estimated) :
        status \in {"delivered", "shipped"},
        purchase \in {NaT, DateText(5), Unparseable},
        customer \in {NaT, DateText(20)},
        estimated \in {NaT, DateText(25)}}

InitFilledOrders ==
    /\ \E N \in 1..MaxOrders :
          \E orders \in [1..N -> FilledOrderCases] :
             datasets = [t \in {"orders"} |->
                            [columns |-> CompleteTable(t).columns, rows |-> orders]]
    /\ raw_datasets = datasets
    /\ cleaning_log = <<>>
    /\ cleaner_run = 1
    /\ cleaner_pc = "clean_missing_values"
    /\ IdleScoring
    /\ IdleSegment
    /\ IdleGeo
    /\ IdleForecast
    /\ IdleMaster
    /\ IdleAnalysis
    /\ IdleRun
    /\ IdleLoader
    /\ IdleExt

SpecFilledOrders == InitFilledOrders /\ [][NextCleaner]_vars

\* The cleaner on a payments table

\* bound on the rows of the payments table
MaxPayments == 3

\* payments of two types with a missing, a negative and two positive values
PaymentCases ==
    {[payment_type |-> type, payment_value |-> value] :
        type \in {"credit_card", "voucher"},
        value \in {NaN, Int2F(-10), Int2F(50), Int2F(100)}}

InitPayments ==
    /\ \E N \in 1..MaxPayments :
          \E payments \in [1..N -> PaymentCases] :
             datasets = [t \in {"order_payments"} |->
                            [columns |-> CompleteTable(t).columns, rows |-> payments]]
    /\ raw_datasets = datasets
    /\ cleaning_log = <<>>
    /\ cleaner_run = 1
    /\ cleaner_pc = "clean_missing_values"
    /\ IdleScoring
    /\ IdleSegment
    /\ IdleGeo
    /\ IdleForecast
    /\ IdleMaster
    /\ IdleAnalysis
    /\ IdleRun
    /\ IdleLoader
    /\ IdleExt

SpecPayments == InitPayments /\ [][NextCleaner]_vars

----------------------------------------------------------------------------
(* Master datasets: FeatureEngineer.create_master_analytical_datasets on a   *)
(* mapping that lacks tables.  A frame is carried as the columns that the   *)
(* merges and aggregations of the method name, and as whether it has rows.  *)

\* pd.DataFrame()
EmptyFrame == [columns |-> {}, rows |-> 0]

\* DataFrame.empty
IsEmpty(frame) == frame.rows = 0 \/ frame.columns = {}

\* the tables the loader can hand over, each with rows
InputTables ==
    {"orders", "order_items", "customers", "products", "order_payments",
     "order_reviews", "sellers"}

InputFrame(t) ==
    [rows |-> 1,
     columns |->
        IF t = "orders" THEN {"order_id", "customer_id"}
        ELSE IF t = "order_items" THEN {"order_id", "product_id", "seller_id"}
        ELSE IF t = "customers" THEN {"customer_id", "customer_state", "customer_city"}
        ELSE IF t = "products" THEN {"product_id"}
        ELSE IF t = "order_payments"
        THEN {"order_id", "payment_type", "payment_installments", "payment_value"}
        ELSE IF t = "order_reviews" THEN {"order_id", "review_score"}
        ELSE {"seller_id", "seller_state", "seller_city"}]

\* left.merge(right, on=keys, how='left') raises KeyError for a key that one of
\* the frames does not have
MergeRaises(left, right, keys) ==
    ~(keys \subseteq left.columns) \/ ~(keys \subseteq right.columns)

MergeLeft(left, right) == [columns |-> left.columns \cup right.columns, rows |-> left.rows]

\* each create_*_features returns pd.DataFrame() when a table it needs is not in
\* self.datasets (lines 58-60, 174-176, 330-333, 511-514, 673-676)
FeatureSet(ds, needs, frame) == IF needs \subseteq DOMAIN ds THEN frame ELSE EmptyFrame

create_delivery_performance_features(ds) ==
    FeatureSet(ds, {"orders"},
               [columns |-> {"order_id", "customer_id", "delivery_days", "on_time_delivery",
                             "delivery_speed_category", "order_year", "order_month"},
                rows |-> 1])

customer_behavior_features(ds) ==
    FeatureSet(ds, {"orders", "order_items"}, [columns |-> {"customer_id"}, rows |-> 1])

create_product_performance_features(ds) ==
    FeatureSet(ds, {"products", "order_items", "order_reviews"},
               [columns |-> {"product_id"}, rows |-> 1])

create_geographic_features(ds) ==
    FeatureSet(ds, {"customers", "sellers", "orders", "order_items"},
               [columns |-> {"state", "city"}, rows |-> 1])

create_seasonal_features(ds) ==
    FeatureSet(ds, {"orders", "order_items", "products"},
               [columns |-> {"order_year", "order_month"}, rows |-> 1])

\* lines 790-794
create_feature_sets ==
    /\ fe_pc = "create_feature_sets"
    /\ fe_frames' =
          [enhanced_orders |-> create_delivery_performance_features(fe_datasets),
           customer_metrics |-> customer_behavior_features(fe_datasets),
           product_metrics |-> create_product_performance_features(fe_datasets),
           geographic_metrics |-> create_geographic_features(fe_datasets),
           seasonal_metrics |-> create_seasonal_features(fe_datasets)]
    /\ fe_pc' = "market_expansion"
    /\ UNCHANGED <<fe_datasets, master_datasets>>
    /\ UNCHANGED <<scoringVars, segmentVars, geoVars, forecastVars, cleanerVars>>
    /\ UNCHANGED <<analysisVars, runVars, loaderVars>>
    /\ UNCHANGED extVars

\* groupby(['customer_state', 'customer_city']) renamed to state, city, ...
location_delivery ==
    [columns |-> {"state", "city", "avg_delivery_days", "on_time_rate",
                  "typical_delivery_speed"},
     rows |-> 1]

\* lines 797-815: self.datasets['customers'] is read without a test
market_expansion_data ==
    /\ fe_pc = "market_expansion"
    /\ IF IsEmpty(fe_frames.enhanced_orders) \/ IsEmpty(fe_frames.customer_metrics)
       THEN /\ fe_frames' = fe_frames @@ [market_expansion |-> fe_frames.geographic_metrics]
            /\ fe_pc' = "customer_analytics"
       ELSE IF \/ "customers" \notin DOMAIN fe_datasets
               \/ MergeRaises(fe_frames.enhanced_orders, fe_datasets["customers"],
                              {"customer_id"})
               \/ MergeRaises(fe_frames.geographic_metrics, location_delivery,
                              {"state", "city"})
       THEN /\ fe_pc' = "KeyError"
            /\ UNCHANGED fe_frames
       ELSE /\ fe_frames' = fe_frames @@
                   [market_expansion |->
                       MergeLeft(fe_frames.geographic_metrics, location_delivery)]
            /\ fe_pc' = "customer_analytics"
    /\ UNCHANGED <<fe_datasets, master_datasets>>
    /\ UNCHANGED <<scoringVars, segmentVars, geoVars, forecastVars, cleanerVars>>
    /\ UNCHANGED <<analysisVars, runVars, loaderVars>>
    /\ UNCHANGED extVars

\* groupby('customer_id') renamed to customer_id, avg_delivery_experience, ...
customer_delivery ==
    [columns |-> {"customer_id", "avg_delivery_experience", "delivery_reliability",
                  "total_orders_check"},
     rows |-> 1]

\* lines 818-832
customer_analytics_data ==
    /\ fe_pc = "customer_analytics"
    /\ IF IsEmpty(fe_frames.enhanced_orders)
       THEN /\ fe_frames' = fe_frames @@ [customer_analytics |-> fe_frames.customer_metrics]
            /\ fe_pc' = "payment_operations"
       ELSE IF MergeRaises(fe_frames.customer_metrics, customer_delivery, {"customer_id"})
       THEN /\ fe_pc' = "KeyError"
            /\ UNCHANGED fe_frames
       ELSE /\ fe_frames' = fe_frames @@
                   [customer_analytics |->
                       MergeLeft(fe_frames.customer_metrics, customer_delivery)]
            /\ fe_pc' = "payment_operations"
    /\ UNCHANGED <<fe_datasets, master_datasets>>
    /\ UNCHANGED <<scoringVars, segmentVars, geoVars, forecastVars, cleanerVars>>
    /\ UNCHANGED <<analysisVars, runVars, loaderVars>>
    /\ UNCHANGED extVars

\* groupby('order_id') of the payments
payment_behavior ==
    [columns |-> {"order_id", "payment_type", "payment_installments", "payment_value"},
     rows |-> 1]

\* lines 847-866
payment_operations_data ==
    /\ fe_pc = "payment_operations"
    /\ IF "order_payments" \notin DOMAIN fe_datasets
       THEN /\ fe_frames' = fe_frames @@ [payment_operations |-> fe_frames.enhanced_orders]
            /\ fe_pc' = "store"
       ELSE IF MergeRaises(fe_frames.enhanced_orders, payment_behavior, {"order_id"})
       THEN /\ fe_pc' = "KeyError"
            /\ UNCHANGED fe_frames
       ELSE /\ fe_frames' = fe_frames @@
                   [payment_operations |->
                       IF "order_reviews" \in DOMAIN fe_datasets
                       THEN MergeLeft(MergeLeft(fe_frames.enhanced_orders, payment_behavior),
                                      fe_datasets["order_reviews"])
                       ELSE MergeLeft(fe_frames.enhanced_orders, payment_behavior)]
            /\ fe_pc' = "store"
    /\ UNCHANGED <<fe_datasets, master_datasets>>
    /\ UNCHANGED <<scoringVars, segmentVars, geoVars, forecastVars, cleanerVars>>
    /\ UNCHANGED <<analysisVars, runVars, loaderVars>>
    /\ UNCHANGED extVars

\* self.seasonal_data as create_seasonal_features stores it (lines 771-776)
seasonal_data ==
    [monthly_metrics |->
        [columns |-> {"year", "month", "monthly_orders", "monthly_revenue",
                      "monthly_customers", "year_month"}, rows |-> 1],
     category_seasonal |->
        [columns |-> {"category", "year", "month", "category_orders", "category_revenue",
                      "category_items"}, rows |-> 1],
     category_variance |->
        [columns |-> {"category", "avg_monthly_revenue", "revenue_std", "seasonal_variance"},
         rows |-> 1],
     cultural_events |->
        [columns |-> {"month", "monthly_total_revenue", "avg_order_value", "order_count",
                      "unique_customers", "event_type"}, rows |-> 1]]

\* lines 835-844: hasattr(self, 'seasonal_data') holds when create_seasonal_features
\* found its tables
seasonal_intelligence_data(ds, seasonal_metrics) ==
    IF {"orders", "order_items", "products"} \subseteq DOMAIN ds
    THEN [monthly_trends |-> seasonal_data.monthly_metrics,
          category_patterns |-> seasonal_data.category_seasonal,
          seasonal_variance |-> seasonal_data.category_variance,
          cultural_events |-> seasonal_data.cultural_events]
    ELSE seasonal_metrics

\* lines 835-844, 869-886
store_master_datasets ==
    /\ fe_pc = "store"
    /\ master_datasets' =
          [market_expansion |-> fe_frames.market_expansion,
           customer_analytics |-> fe_frames.customer_analytics,
           seasonal_intelligence |->
               seasonal_intelligence_data(fe_datasets, fe_frames.seasonal_metrics),
           payment_operations |-> fe_frames.payment_operations,
           product_performance |-> fe_frames.product_metrics]
    /\ fe_pc' = "returned"
    /\ UNCHANGED <<fe_datasets, fe_frames>>
    /\ UNCHANGED <<scoringVars, segmentVars, geoVars, forecastVars, cleanerVars>>
    /\ UNCHANGED <<analysisVars, runVars, loaderVars>>
    /\ UNCHANGED extVars

\* FeatureEngineer(datasets) for every subset of the tables
InitMaster ==
    /\ \E loaded \in SUBSET InputTables : fe_datasets = [t \in loaded |-> InputFrame(t)]
    /\ fe_frames = <<>>
    /\ master_datasets = <<>>
    /\ fe_pc = "create_feature_sets"
    /\ IdleScoring
    /\ IdleSegment
    /\ IdleGeo
    /\ IdleForecast
    /\ IdleCleaner
    /\ IdleAnalysis
    /\ IdleRun
    /\ IdleLoader
    /\ IdleExt

NextMaster ==
    \/ create_feature_sets
    \/ market_expansion_data
    \/ customer_analytics_data
    \/ payment_operations_data
    \/ store_master_datasets

SpecMaster == InitMaster /\ [][NextMaster]_vars

----------------------------------------------------------------------------
(* The three analyses, each run on its own object over the files under      *)
(* data/: MarketExpansionAnalyzer.run_complete_analysis,                    *)
(* CustomerAnalytics.run_complete_analysis and                              *)
(* SeasonalAnalysis.run_complete_seasonal_analysis.                         *)

Analyses == {"market_expansion", "customer_analytics", "seasonal_analysis"}

\* the files the analyses read
DataFiles ==
    {"feature_engineered/market_expansion.csv", "feature_engineered/customer_analytics.csv",
     "cleaned/cleaned_orders.csv", "cleaned/cleaned_order_items.csv",
     "cleaned/cleaned_products.csv", "cleaned/cleaned_customers.csv",
     "cleaned/cleaned_sellers.csv"}

\* MarketExpansionAnalyzer.load_data reads four files inside try/except Exception
\* and returns False when a read raises
market_expansion_load_data(files) ==
    {"feature_engineered/market_expansion.csv", "cleaned/cleaned_orders.csv",
     "cleaned/cleaned_customers.csv", "cleaned/cleaned_sellers.csv"} \subseteq files

run_market_expansion_Unhandled(files) ==
    IF market_expansion_load_data(files) THEN "returned True" ELSE "FileNotFoundError"

\* run_complete_analysis returns False when load_data does; the analysis steps run
\* inside try/except Exception
run_market_expansion(files) ==
    IF market_expansion_load_data(files) THEN "returned True" ELSE "returned False"

\* CustomerAnalytics.load_data: pd.read_csv(self.data_path) without try
run_customer_analytics(files) ==
    IF "feature_engineered/customer_analytics.csv" \in files
    THEN "returned" ELSE "FileNotFoundError"

\* SeasonalAnalysis.load_data: a file that is not found is skipped with a warning
seasonal_load_data(files) ==
    {t \in {"orders", "order_items", "products", "customers"} :
        ("cleaned/cleaned_" \o t \o ".csv") \in files}

\* prepare_seasonal_data reads self.datasets['orders'] and ['order_items'] without
\* a test; products is read under a test, customers is not read
run_seasonal_analysis(files) ==
    IF {"orders", "order_items"} \subseteq seasonal_load_data(files)
    THEN "returned" ELSE "KeyError"

RunOutcome(analysis, files) ==
    IF analysis = "market_expansion" THEN run_market_expansion(files)
    ELSE IF analysis = "customer_analytics" THEN run_customer_analytics(files)
    ELSE run_seasonal_analysis(files)

\* one analysis is run to its end
run_analysis ==
    /\ \E a \in Analyses :
          /\ analysis_outcome[a] = "ready"
          /\ analysis_outcome' = [analysis_outcome EXCEPT ![a] = RunOutcome(a, data_files)]
    /\ UNCHANGED data_files
    /\ UNCHANGED <<scoringVars, segmentVars, geoVars, forecastVars, cleanerVars>>
    /\ UNCHANGED <<masterVars, runVars, loaderVars>>
    /\ UNCHANGED extVars

InitAnalyses ==
    /\ data_files \in SUBSET DataFiles
    /\ analysis_outcome = [a \in Analyses |-> "ready"]
    /\ IdleScoring
    /\ IdleSegment
    /\ IdleGeo
    /\ IdleForecast
    /\ IdleCleaner
    /\ IdleMaster
    /\ IdleRun
    /\ IdleLoader
    /\ IdleExt

NextAnalyses == run_analysis

SpecAnalyses == InitAnalyses /\ [][NextAnalyses]_vars

----------------------------------------------------------------------------
(* DataLoader.load_all_datasets                                             *)

\* bound on the rows of a file
MaxFileRows == 2

\* bound on the files of the data directory that are not a well-formed UTF-8
\* file with rows
MaxFailedFiles == 1

\* the keys of self.file_mapping, in the order of the loop
file_mapping ==
    <<"customers", "geolocation", "order_items", "order_payments", "order_reviews",
      "orders", "products", "sellers", "product_categories">>

FileKeys == {file_mapping[i] : i \in 1..Len(file_mapping)}

\* a file of the data directory: whether it exists, what pd.read_csv raises
\* on it with encoding='utf-8' and with encoding='latin-1', and its data rows
AbsentFile == [exists |-> FALSE, utf8 |-> "none", latin1 |-> "none", rows |-> 0]

FileWith(utf8, latin1, rows) ==
    [exists |-> TRUE, utf8 |-> utf8, latin1 |-> latin1, rows |-> rows]

FileKinds ==
    {AbsentFile}
    \cup {FileWith("none", "none", n) : n \in 0..MaxFileRows}
    \cup {FileWith(e, "none", 0) : e \in {"EmptyDataError", "ParserError", "PermissionError"}}
    \cup {FileWith("UnicodeDecodeError", "none", n) : n \in 0..MaxFileRows}
    \cup {FileWith("UnicodeDecodeError", "ParserError", 0)}

None == [none |-> TRUE]

DataFrame(n) == [rows |-> n]

\* pd.read_csv(file_path, encoding=...): the exception raised, or the table
read_csv(file, encoding) ==
    LET e == IF encoding = "utf-8" THEN file.utf8 ELSE file.latin1
    IN IF e # "none" THEN [raised |-> e] ELSE DataFrame(file.rows)

\* load_single_file: the table, or None; df.empty is tested after the utf-8
\* read only
load_single_file(file) ==
    IF ~file.exists THEN None
    ELSE LET df == read_csv(file, "utf-8")
         IN IF "raised" \notin DOMAIN df
            THEN IF df.rows = 0 THEN None ELSE df
            ELSE IF df.raised = "EmptyDataError" THEN None
            ELSE IF df.raised = "ParserError" THEN None
            ELSE IF df.raised = "UnicodeDecodeError"
            THEN LET df2 == read_csv(file, "latin-1")
                 IN IF "raised" \notin DOMAIN df2 THEN df2 ELSE None
            ELSE None

\* the key after k in the loop over self.file_mapping.items()
NextKey(k) ==
    LET i == CHOOSE j \in 1..Len(file_mapping) : file_mapping[j] = k
    IN IF i = Len(file_mapping) THEN "store" ELSE file_mapping[i + 1]

\* one pass of the loop of load_all_datasets
load_next_file ==
    /\ loader_pc \in FileKeys
    /\ LET df == load_single_file(loader_files[loader_pc])
       IN loaded_datasets' =
             IF df # None
             THEN [k \in DOMAIN loaded_datasets \cup {loader_pc} |->
                      IF k = loader_pc THEN df ELSE loaded_datasets[k]]
             ELSE loaded_datasets
    /\ loader_pc' = NextKey(loader_pc)
    /\ UNCHANGED <<loader_files, loader_datasets>>
    /\ UNCHANGED <<scoringVars, segmentVars, geoVars, forecastVars, cleanerVars>>
    /\ UNCHANGED <<masterVars, analysisVars, runVars>>
    /\ UNCHANGED extVars

\* self.datasets = loaded_datasets; return loaded_datasets
store_loaded_datasets ==
    /\ loader_pc = "store"
    /\ loader_datasets' = loaded_datasets
    /\ loader_pc' = "returned"
    /\ UNCHANGED <<loader_files, loaded_datasets>>
    /\ UNCHANGED <<scoringVars, segmentVars, geoVars, forecastVars, cleanerVars>>
    /\ UNCHANGED <<masterVars, analysisVars, runVars>>
    /\ UNCHANGED extVars

InitLoader ==
    /\ \E failed \in {f \in SUBSET FileKeys : Cardinality(f) <= MaxFailedFiles} :
          \E kinds \in [failed -> FileKinds] :
             loader_files = [k \in FileKeys |->
                IF k \in failed THEN kinds[k] ELSE FileWith("none", "none", MaxFileRows)]
    /\ loaded_datasets = <<>>
    /\ loader_datasets = <<>>
    /\ loader_pc = file_mapping[1]
    /\ IdleScoring
    /\ IdleSegment
    /\ IdleGeo
    /\ IdleForecast
    /\ IdleCleaner
    /\ IdleMaster
    /\ IdleAnalysis
    /\ IdleRun
    /\ IdleExt

NextLoader ==
    \/ load_next_file
    \/ store_loaded_datasets

SpecLoader == InitLoader /\ [][NextLoader]_vars

----------------------------------------------------------------------------
(* save_cleaned_data.py: save_cleaned_datasets and load_cleaned_datasets    *)
(* over the directory data/cleaned                                          *)

\* bound on the save_cleaned_datasets runs
MaxSaves == 2

\* f"cleaned_{dataset_name}.csv"
CleanedFile(dataset_name) == "cleaned_" \o dataset_name \o ".csv"

\* filename.startswith("cleaned_") and filename.endswith(".csv")
IsCleanedCsv(filename) == \E n \in FileKeys : filename = CleanedFile(n)

\* filename.replace("cleaned_", "").replace(".csv", "")
DatasetNameOf(filename) == CHOOSE n \in FileKeys : filename = CleanedFile(n)

\* the files a save writes: one per cleaned table, the report and the summary;
\* a file of the directory that is not written stays as it is
SavedFiles(dir, names) ==
    dir \cup {CleanedFile(n) : n \in names} \cup {"cleaning_report.txt", "datasets_summary.txt"}

\* the loop over os.listdir(input_dir)
LoadedNames(dir) == {DatasetNameOf(f) : f \in {g \in dir : IsCleanedCsv(g)}}

\* the tables a run loads and cleans: all but the files that failed to load
CleanedNames ==
    {FileKeys \ failed : failed \in {f \in SUBSET FileKeys : Cardinality(f) <= MaxFailedFiles}}

\* save_cleaned_datasets(): the raw files are loaded and cleaned and every
\* cleaned table is written
save_cleaned_datasets ==
    /\ store_pc \in {"ready", "saved", "loaded"}
    /\ save_runs < MaxSaves
    /\ \E names \in CleanedNames :
          /\ cleaned_dir' = SavedFiles(cleaned_dir, names)
          /\ cleaned_datasets' = names
    /\ save_runs' = save_runs + 1
    /\ store_pc' = "saved"
    /\ UNCHANGED reloaded_datasets
    /\ UNCHANGED <<scoringVars, segmentVars, geoVars, forecastVars, cleanerVars>>
    /\ UNCHANGED <<masterVars, analysisVars, runVars, loaderVars>>
    /\ UNCHANGED ExceptStore

\* load_cleaned_datasets(): a missing and an empty directory both give {}
load_cleaned_datasets ==
    /\ store_pc \in {"ready", "saved"}
    /\ reloaded_datasets' = LoadedNames(cleaned_dir)
    /\ store_pc' = "loaded"
    /\ UNCHANGED <<cleaned_dir, cleaned_datasets, save_runs>>
    /\ UNCHANGED <<scoringVars, segmentVars, geoVars, forecastVars, cleanerVars>>
    /\ UNCHANGED <<masterVars, analysisVars, runVars, loaderVars>>
    /\ UNCHANGED ExceptStore

InitStore ==
    /\ cleaned_dir = {}
    /\ cleaned_datasets = {}
    /\ reloaded_datasets = {}
    /\ save_runs = 0
    /\ store_pc = "ready"
    /\ IdleScoring
    /\ IdleSegment
    /\ IdleGeo
    /\ IdleForecast
    /\ IdleCleaner
    /\ IdleMaster
    /\ IdleAnalysis
    /\ IdleRun
    /\ IdleLoader
    /\ IdleExceptStore

NextStore ==
    \/ save_cleaned_datasets
    \/ load_cleaned_datasets

SpecStore == InitStore /\ [][NextStore]_vars

----------------------------------------------------------------------------
(* The directory data/feature_engineered: FeatureEngineer.save_master_datasets, *)
(* load_feature_engineered_datasets, the main of seasonal_analysis.py and   *)
(* load_seasonal_data of the seasonal dashboard page                        *)

\* bounds on the feature-engineering runs that save and on the runs of the
\* seasonal analysis
MaxFeatureRuns == 2
MaxSeasonalRuns == 1

\* isinstance(dataset, dict)
IsDict(dataset) == "columns" \notin DOMAIN dataset

\* the (file name, frame) pairs the loop of save_master_datasets writes: a frame
\* that is empty is not written
SavedFrames(master) ==
    {<<name \o ".csv", master[name]>> :
        name \in {n \in DOMAIN master : ~IsDict(master[n]) /\ ~IsEmpty(master[n])}}
    \cup UNION {{<<name \o "_" \o sub \o ".csv", master[name][sub]>> :
                    sub \in {x \in DOMAIN master[name] : ~IsEmpty(master[name][x])}} :
                name \in {n \in DOMAIN master : IsDict(master[n])}}

\* the directory after a writer wrote the pairs: a file that is not written
\* stays as it is
WriteFiles(dir, pairs, by, run) ==
    LET written == {pr[1] : pr \in pairs}
    IN [f \in DOMAIN dir \cup written |->
           IF f \in written
           THEN [by |-> by, run |-> run,
                 columns |-> (CHOOSE pr \in pairs : pr[1] = f)[2].columns]
           ELSE dir[f]]

\* save_master_datasets, with the inventory file it writes last
save_master_datasets ==
    /\ fe_pc = "returned"
    /\ output_dir' =
          WriteFiles(output_dir,
                     SavedFrames(master_datasets)
                        \cup {<<"dataset_inventory.txt", [columns |-> {}, rows |-> 1]>>},
                     "feature_engineer", fe_runs + 1)
    /\ fe_runs' = fe_runs + 1
    /\ fe_pc' = "saved"
    /\ UNCHANGED <<fe_datasets, fe_frames, master_datasets>>
    /\ UNCHANGED <<seasonal_runs, fe_loaded, dashboard_data>>
    /\ UNCHANGED <<scoringVars, segmentVars, geoVars, forecastVars, cleanerVars>>
    /\ UNCHANGED <<analysisVars, runVars, loaderVars>>
    /\ UNCHANGED ExceptOutput
\* the cleaned tables of a run: all but at most MaxFailedFiles of them
RunTables ==
    {InputTables \ failed :
        failed \in {f \in SUBSET InputTables : Cardinality(f) <= MaxFailedFiles}}

\* the next run of create_enhanced_datasets_from_cleaned_data: a new
\* FeatureEngineer over the cleaned tables of that time
start_feature_engineering ==
    /\ fe_pc \in {"saved", "loaded", "KeyError"}
    /\ fe_runs < MaxFeatureRuns
    /\ \E loaded \in RunTables : fe_datasets' = [t \in loaded |-> InputFrame(t)]
    /\ fe_frames' = <<>>
    /\ master_datasets' = <<>>
    /\ fe_pc' = "create_feature_sets"
    /\ UNCHANGED outputVars
    /\ UNCHANGED <<scoringVars, segmentVars, geoVars, forecastVars, cleanerVars>>
    /\ UNCHANGED <<analysisVars, runVars, loaderVars>>
    /\ UNCHANGED ExceptOutput
\* filename.endswith('.csv')
IsCsv(filename) == filename # "dataset_inventory.txt"

\* the files of the directory by dataset name: filename.replace('.csv', '')
LoadedDatasets(dir) ==
    LET csv_files == {f \in DOMAIN dir : IsCsv(f)}
        stems == {"market_expansion", "customer_analytics", "payment_operations",
                  "product_performance", "seasonal_intelligence_monthly_trends",
                  "seasonal_intelligence_category_patterns",
                  "seasonal_intelligence_seasonal_variance",
                  "seasonal_intelligence_cultural_events",
                  "seasonal_intelligence_forecasts",
                  "seasonal_intelligence_inventory_recommendations"}
        names == {n \in stems : (n \o ".csv") \in csv_files}
    IN [n \in names |-> dir[n \o ".csv"]]

load_feature_engineered_datasets ==
    /\ fe_pc = "saved"
    /\ fe_loaded' = LoadedDatasets(output_dir)
    /\ fe_pc' = "loaded"
    /\ UNCHANGED <<fe_datasets, fe_frames, master_datasets>>
    /\ UNCHANGED <<output_dir, fe_runs, seasonal_runs, dashboard_data>>
    /\ UNCHANGED <<scoringVars, segmentVars, geoVars, forecastVars, cleanerVars>>
    /\ UNCHANGED <<analysisVars, runVars, loaderVars>>
    /\ UNCHANGED ExceptOutput
\* the frames the main of seasonal_analysis.py writes after a run that
\* completed: category patterns when the products were loaded, forecasts when
\* the data was sufficient for the model
SeasonalFrames(products, sufficient) ==
    {<<"seasonal_intelligence_monthly_trends.csv",
       [columns |-> {"year", "month", "monthly_revenue", "monthly_orders", "year_month",
                     "revenue_growth", "order_growth"}, rows |-> 1]>>,
     <<"seasonal_intelligence_cultural_events.csv",
       [columns |-> {"month", "monthly_total_revenue", "order_count", "event_name",
                     "event_type", "expected_impact", "revenue_vs_average",
                     "orders_vs_average"}, rows |-> 1]>>,
     <<"seasonal_intelligence_seasonal_variance.csv",
       [columns |-> {"month", "total_revenue", "total_orders", "avg_order_value",
                     "unique_customers"}, rows |-> 1]>>,
     <<"seasonal_intelligence_inventory_recommendations.csv",
       [columns |-> IF products THEN {"category", "seasonality_level"} ELSE {},
        rows |-> IF products THEN 1 ELSE 0]>>}
    \cup (IF products
          THEN {<<"seasonal_intelligence_category_patterns.csv",
                  [columns |-> {"category", "avg_monthly_revenue", "revenue_std",
                                "min_revenue", "max_revenue"}, rows |-> 1]>>}
          ELSE {})
    \cup (IF sufficient
          THEN {<<"seasonal_intelligence_forecasts.csv",
                  [columns |-> {"year", "month", "predicted_revenue", "predicted_orders"},
                   rows |-> 1]>>}
          ELSE {})

\* main() of seasonal_analysis.py, between two feature-engineering runs
seasonal_main ==
    /\ fe_pc \in {"create_feature_sets", "saved", "loaded"}
    /\ seasonal_runs < MaxSeasonalRuns
    /\ \E products \in BOOLEAN, sufficient \in BOOLEAN :
          output_dir' = WriteFiles(output_dir, SeasonalFrames(products, sufficient),
                                   "seasonal_analysis", seasonal_runs + 1)
    /\ seasonal_runs' = seasonal_runs + 1
    /\ UNCHANGED <<fe_runs, fe_loaded, dashboard_data>>
    /\ UNCHANGED masterVars
    /\ UNCHANGED <<scoringVars, segmentVars, geoVars, forecastVars, cleanerVars>>
    /\ UNCHANGED <<analysisVars, runVars, loaderVars>>
    /\ UNCHANGED ExceptOutput
\* the six files load_seasonal_data reads
SeasonalPageFiles ==
    {"seasonal_intelligence_monthly_trends.csv", "seasonal_intelligence_forecasts.csv",
     "seasonal_intelligence_cultural_events.csv",
     "seasonal_intelligence_category_patterns.csv",
     "seasonal_intelligence_inventory_recommendations.csv",
     "seasonal_intelligence_seasonal_variance.csv"}

\* load_seasonal_data: a missing file, a file without columns or a missing
\* column raises inside the try, and the page gets None
SeasonalPageData(dir) ==
    IF /\ SeasonalPageFiles \subseteq DOMAIN dir
       /\ \A f \in SeasonalPageFiles : dir[f].columns # {}
       /\ "total_revenue" \in dir["seasonal_intelligence_seasonal_variance.csv"].columns
       /\ "expected_impact" \in dir["seasonal_intelligence_cultural_events.csv"].columns
    THEN "data" ELSE "None"

load_seasonal_data ==
    /\ fe_pc \in {"saved", "loaded"}
    /\ dashboard_data' = SeasonalPageData(output_dir)
    /\ UNCHANGED <<output_dir, fe_runs, seasonal_runs, fe_loaded>>
    /\ UNCHANGED masterVars
    /\ UNCHANGED <<scoringVars, segmentVars, geoVars, forecastVars, cleanerVars>>
    /\ UNCHANGED <<analysisVars, runVars, loaderVars>>
    /\ UNCHANGED ExceptOutput
InitOutput ==
    /\ \E loaded \in RunTables : fe_datasets = [t \in loaded |-> InputFrame(t)]
    /\ fe_frames = <<>>
    /\ master_datasets = <<>>
    /\ fe_pc = "create_feature_sets"
    /\ output_dir = <<>>
    /\ fe_runs = 0
    /\ seasonal_runs = 0
    /\ fe_loaded = <<>>
    /\ dashboard_data = "not loaded"
    /\ IdleScoring
    /\ IdleSegment
    /\ IdleGeo
    /\ IdleForecast
    /\ IdleCleaner
    /\ IdleAnalysis
    /\ IdleRun
    /\ IdleLoader
    /\ IdleExceptOutput

NextOutput ==
    \/ create_feature_sets
    \/ market_expansion_data
    \/ customer_analytics_data
    \/ payment_operations_data
    \/ store_master_datasets
    \/ save_master_datasets
    \/ start_feature_engineering
    \/ load_feature_engineered_datasets
    \/ seasonal_main
    \/ load_seasonal_data

SpecOutput == InitOutput /\ [][NextOutput]_vars

----------------------------------------------------------------------------
(* cache_data_with_ttl: the decorator of the caching utilities that         *)
(* fix_dashboard_issues.py writes                                           *)

\* the ttl_hours of the decorator, and bounds on the hours that pass and on
\* the calls
TtlHours == 2
MaxClock == 3
MaxCalls == 3

WrappedFunctions == {"load_dashboard_data", "process_dashboard_metrics"}
PositionalArgs == {<<2017>>, <<2018>>}
KeywordArgs == {[state |-> "SP"], [state |-> "RJ"]}

\* f"{func.__name__}_{hashlib.md5(str(args).encode()).hexdigest()}": the name
\* of the function and the digest of the positional arguments, which differs
\* between the tuples of PositionalArgs
cache_key(func, args, kwargs) == <<func, args>>

\* func(*args, **kwargs): the value names the call that computed it
Execute(func, args, kwargs) == [func |-> func, args |-> args, kwargs |-> kwargs]

\* os.path.exists(cache_file) and cache_age < ttl_hours
CacheValid(files, key, now) == key \in DOMAIN files /\ now - files[key].mtime < TtlHours

\* wrapper(*args, **kwargs)
call_wrapped ==
    /\ cache_calls < MaxCalls
    /\ \E func \in WrappedFunctions, args \in PositionalArgs, kwargs \in KeywordArgs :
          LET key == cache_key(func, args, kwargs)
          IN IF CacheValid(cache_files, key, clock)
             THEN /\ last_call' = [func |-> func, args |-> args, kwargs |-> kwargs,
                                   executed |-> FALSE, result |-> cache_files[key].value,
                                   age |-> clock - cache_files[key].mtime]
                  /\ UNCHANGED cache_files
             ELSE /\ last_call' = [func |-> func, args |-> args, kwargs |-> kwargs,
                                   executed |-> TRUE,
                                   result |-> Execute(func, args, kwargs), age |-> 0]
                  /\ cache_files' =
                        [k \in DOMAIN cache_files \cup {key} |->
                            IF k = key
                            THEN [value |-> Execute(func, args, kwargs), mtime |-> clock]
                            ELSE cache_files[k]]
    /\ cache_calls' = cache_calls + 1
    /\ UNCHANGED clock
    /\ UNCHANGED <<scoringVars, segmentVars, geoVars, forecastVars, cleanerVars>>
    /\ UNCHANGED <<masterVars, analysisVars, runVars, loaderVars>>
    /\ UNCHANGED ExceptCache

\* an hour passes
tick ==
    /\ clock < MaxClock
    /\ clock' = clock + 1
    /\ UNCHANGED <<cache_files, last_call, cache_calls>>
    /\ UNCHANGED <<scoringVars, segmentVars, geoVars, forecastVars, cleanerVars>>
    /\ UNCHANGED <<masterVars, analysisVars, runVars, loaderVars>>
    /\ UNCHANGED ExceptCache

InitCache ==
    /\ cache_files = <<>>
    /\ clock = 0
    /\ last_call = <<>>
    /\ cache_calls = 0
    /\ IdleScoring
    /\ IdleSegment
    /\ IdleGeo
    /\ IdleForecast
    /\ IdleCleaner
    /\ IdleMaster
    /\ IdleAnalysis
    /\ IdleRun
    /\ IdleLoader
    /\ IdleExceptCache

NextCache ==
    \/ call_wrapped
    \/ tick

SpecCache == InitCache /\ [][NextCache]_vars

----------------------------------------------------------------------------
(* The module-level analyze() wrappers of market_expansion.py and           *)
(* seasonal_analysis.py                                                     *)

\* the names a module defines at its top level, and the methods of its class
ModuleNames(module) ==
    IF module = "seasonal_analysis" THEN {"SeasonalAnalysis", "main", "analyze"}
    ELSE {"MarketExpansionAnalyzer", "main", "analyze"}

\* the methods of the analysis class of a module that run its pipeline
RunMethods(module) ==
    IF module = "seasonal_analysis" THEN {"run_complete_seasonal_analysis"}
    ELSE {"run_complete_analysis"}

\* the steps of MarketExpansionAnalyzer.run_complete_analysis
MarketExpansionSteps ==
    <<"load_data", "analyze_market_penetration", "calculate_untapped_potential",
      "evaluate_seller_distribution", "analyze_delivery_performance_by_geography",
      "generate_expansion_opportunity_matrix", "create_visualizations", "generate_report">>

\* the steps of SeasonalAnalysis.run_complete_seasonal_analysis
SeasonalSteps ==
    <<"load_data", "prepare_seasonal_data", "analyze_monthly_seasonal_patterns",
      "analyze_brazilian_holiday_impact", "build_demand_forecasting_model",
      "calculate_seasonal_variance_metrics",
      "generate_inventory_optimization_recommendations",
      "create_seasonal_intelligence_report">>

\* seasonal_analysis.analyze(): from seasonal_analysis import SeasonalAnalyzer
\* and analyzer.run_complete_analysis(), inside try/except Exception; the
\* module defines no such name, the ImportError is caught and False is returned
analyze_seasonal_analysis ==
    /\ analyze_module = "seasonal_analysis"
    /\ analyze_result = "pending"
    /\ IF /\ "SeasonalAnalyzer" \in ModuleNames(analyze_module)
          /\ "run_complete_analysis" \in RunMethods(analyze_module)
       THEN /\ analyze_steps' = SeasonalSteps
            /\ analyze_result' = "results"
       ELSE /\ analyze_steps' = analyze_steps
            /\ analyze_result' = "False"
    /\ UNCHANGED analyze_module
    /\ UNCHANGED <<scoringVars, segmentVars, geoVars, forecastVars, cleanerVars>>
    /\ UNCHANGED <<masterVars, analysisVars, runVars, loaderVars>>
    /\ UNCHANGED ExceptAnalyze
\* market_expansion.analyze(): MarketExpansionAnalyzer().run_complete_analysis(),
\* which returns False when load_data does
analyze_market_expansion ==
    /\ analyze_module = "market_expansion"
    /\ analyze_result = "pending"
    /\ analyze_steps' = <<MarketExpansionSteps[1]>>
    /\ analyze_result' = IF market_expansion_load_data(data_files) THEN "running" ELSE "False"
    /\ UNCHANGED analyze_module
    /\ UNCHANGED <<scoringVars, segmentVars, geoVars, forecastVars, cleanerVars>>
    /\ UNCHANGED <<masterVars, analysisVars, runVars, loaderVars>>
    /\ UNCHANGED ExceptAnalyze
\* the next step of run_complete_analysis; it returns True after the last
market_expansion_step ==
    /\ analyze_module = "market_expansion"
    /\ analyze_result = "running"
    /\ analyze_steps' = Append(analyze_steps, MarketExpansionSteps[Len(analyze_steps) + 1])
    /\ analyze_result' =
          IF Len(analyze_steps) + 1 = Len(MarketExpansionSteps) THEN "True" ELSE "running"
    /\ UNCHANGED analyze_module
    /\ UNCHANGED <<scoringVars, segmentVars, geoVars, forecastVars, cleanerVars>>
    /\ UNCHANGED <<masterVars, analysisVars, runVars, loaderVars>>
    /\ UNCHANGED ExceptAnalyze
InitAnalyze ==
    /\ analyze_module \in {"market_expansion", "seasonal_analysis"}
    /\ analyze_steps = <<>>
    /\ analyze_result = "pending"
    /\ data_files \in SUBSET DataFiles
    /\ analysis_outcome = <<>>
    /\ IdleScoring
    /\ IdleSegment
    /\ IdleGeo
    /\ IdleForecast
    /\ IdleCleaner
    /\ IdleMaster
    /\ IdleRun
    /\ IdleLoader
    /\ IdleExceptAnalyze

NextAnalyze ==
    \/ analyze_seasonal_analysis
    \/ analyze_market_expansion
    \/ market_expansion_step

SpecAnalyze == InitAnalyze /\ [][NextAnalyze]_vars

----------------------------------------------------------------------------
(* Properties of customer scoring                                           *)

ScoreRange == 1..5

\* C1: every customer row produced by customer scoring has recency_score,
\* frequency_score and monetary_score in {1,...,5} and a customer_segment that is
\* one of the nine fixed labels.
C1_ScoresAndSegmentInRange ==
    \A i \in DOMAIN customer_metrics :
        /\ customer_metrics[i].recency_score \in ScoreRange
        /\ customer_metrics[i].frequency_score \in ScoreRange
        /\ customer_metrics[i].monetary_score \in ScoreRange
        /\ customer_metrics[i].customer_segment \in SegmentLabels

\* a scored cohort of four customers whose recency scores take four different values
C1_Witness ==
    /\ scoring_result = "ok"
    /\ Len(customer_metrics) = 4
    /\ Cardinality({customer_metrics[i].recency_score : i \in DOMAIN customer_metrics}) = 4
    /\ \E i \in DOMAIN customer_metrics : customer_metrics[i].total_orders = 2

ClvLevel(label) == CHOOSE k \in DOMAIN ClvLabels : ClvLabels[k] = label

\* C6: within one cohort clv_category is monotone in estimated_clv: a customer with
\* a strictly greater estimated_clv never has a lower category, and customers with
\* equal estimated_clv are ordered by their row position.
C6_ClvCategoryMonotone ==
    \A i, j \in DOMAIN customer_metrics :
        LET a == customer_metrics[i]
            b == customer_metrics[j]
        IN (/\ ~IsNaN(a.estimated_clv)
            /\ ~IsNaN(b.estimated_clv)
            /\ \/ FLt(b.estimated_clv, a.estimated_clv)
               \/ (FEq(b.estimated_clv, a.estimated_clv) /\ j < i))
           => ClvLevel(a.clv_category) >= ClvLevel(b.clv_category)

\* a scored cohort in which a greater estimated_clv got a higher category and a tie
\* was split by row position
C6_Witness ==
    /\ scoring_result = "ok"
    /\ \E i, j \in DOMAIN customer_metrics :
          /\ FLt(customer_metrics[j].estimated_clv, customer_metrics[i].estimated_clv)
          /\ customer_metrics[i].clv_category = "VIP"
          /\ customer_metrics[j].clv_category = "Low Value"
    /\ \E i, j \in DOMAIN customer_metrics :
          /\ j < i
          /\ FEq(customer_metrics[j].estimated_clv, customer_metrics[i].estimated_clv)
          /\ customer_metrics[i].clv_category # customer_metrics[j].clv_category

\* C7 as stated: estimated_clv = avg_order_value * (total_orders / active months),
\* wherever the months between first and last order are positive.
C7_ClvIsRunRate ==
    \A i \in DOMAIN customer_metrics :
        LET a == customer_metrics[i]
        IN (a.customer_lifetime_days > 0 /\ ~IsNaN(a.avg_order_value))
           => FEq(FMul(a.estimated_clv, LifetimeMonths(a.customer_lifetime_days)),
                  FMul(a.avg_order_value, Int2F(a.total_orders)))

\* C7 amended: estimated_clv = avg_order_value * total_orders / active months only
\* for a lifetime of more than zero and less than one month (30.44 days); for every
\* other customer it is avg_order_value * total_orders; it is missing exactly when
\* avg_order_value is missing.
C7_ClvPiecewise ==
    \A i \in DOMAIN customer_metrics :
        LET a == customer_metrics[i]
            d == a.customer_lifetime_days
            spend == FMul(a.avg_order_value, Int2F(a.total_orders))
        IN /\ IsNaN(a.estimated_clv) <=> IsNaN(a.avg_order_value)
           /\ ~IsNaN(a.avg_order_value) =>
                IF d > 0 /\ d * 100 < DaysPerMonthX100
                THEN FEq(FMul(a.estimated_clv, LifetimeMonths(d)), spend)
                ELSE FEq(a.estimated_clv, spend)

\* a scored cohort with a customer active for under a month, one active for over a
\* month and one with a single order
C7_Witness ==
    /\ scoring_result = "ok"
    /\ \E i, j, k \in DOMAIN customer_metrics :
          /\ customer_metrics[i].customer_lifetime_days = 20
          /\ customer_metrics[j].customer_lifetime_days = 61
          /\ customer_metrics[k].total_orders = 1
          /\ ~IsNaN(customer_metrics[i].estimated_clv)
          /\ ~IsNaN(customer_metrics[j].estimated_clv)

\* the eight conditions of the decision table, each on its own
SegmentBranches(r, f, m) ==
    <<r >= 4 /\ f >= 4 /\ m >= 4,
      r >= 3 /\ f >= 3 /\ m >= 3,
      r >= 4 /\ f <= 2,
      r >= 3 /\ f >= 3 /\ m <= 2,
      r <= 2 /\ f >= 3 /\ m >= 3,
      r <= 2 /\ f <= 2 /\ m >= 3,
      r >= 3 /\ f <= 2 /\ m <= 2,
      r <= 2 /\ f <= 2 /\ m <= 2>>

\* C8: segment assignment is a total function of (R,F,M) over {1..5}^3: the label
\* is 'Champions' exactly when R>=4, F>=4 and M>=4, and 'Others' exactly when the
\* scores match no branch of the table.
C8_SegmentDecisionTable ==
    customer_segment \notin {"pending", "idle"} =>
        LET b == SegmentBranches(rfm_row.r, rfm_row.f, rfm_row.m)
        IN /\ customer_segment \in SegmentLabels
           /\ (customer_segment = "Champions") <=> b[1]
           /\ (customer_segment = "Others") <=> (\A k \in DOMAIN b : ~b[k])

\* a score triple that falls through every branch
C8_Witness == customer_segment = "Others" /\ rfm_row = [r |-> 3, f |-> 1, m |-> 5]

----------------------------------------------------------------------------
(* Properties of market expansion                                           *)

InUnitInterval(a) == FLe(Int2F(0), a) /\ FLe(a, Int2F(1))

PriorityOutcomes ==
    {categorize_expansion_priority(c.combined_opportunity_score, c.tier, c.population) :
        c \in PriorityCases}

PriorityAssigned ==
    \A x \in DOMAIN state_summary :
        LET row == state_summary[x]
        IN /\ row.expansion_priority \in PriorityOutcomes
           /\ (~row.tier.isna /\ row.tier.v = 1) =>
                 row.expansion_priority \in {"Optimization Priority", "Maintain & Optimize"}
           /\ (~row.tier.isna /\ row.tier.v = 2) =>
                 row.expansion_priority \in {"High Priority", "Medium Priority", "Low Priority"}
           /\ (row.tier.isna \/ row.tier.v = 3) =>
                 row.expansion_priority \in {"Medium Priority", "Low Priority", "Not Recommended"}

\* C9 as stated: every state is assigned a category, and the set of possible
\* outcomes of the rule consists of nine categories.
C9_NinePriorityCategories ==
    geo_pc = "done" => (PriorityAssigned /\ Cardinality(PriorityOutcomes) = 9)

\* C9 amended: every state is assigned a category by its tier (a state without a
\* tier by the tier-3 rules), and the set of possible outcomes of the rule consists
\* of six categories: Optimization Priority, Maintain & Optimize, High Priority,
\* Medium Priority, Low Priority, Not Recommended.
C9_SixPriorityCategories ==
    geo_pc = "done" =>
        (PriorityAssigned /\ PriorityOutcomes = PriorityLabels /\ Cardinality(PriorityOutcomes) = 6)

\* a tier-3 state given the category that tier 2 can give as well
C9_Witness ==
    /\ geo_pc = "done"
    /\ \E x \in DOMAIN state_summary :
          /\ ~state_summary[x].tier.isna
          /\ state_summary[x].tier.v = 3
          /\ state_summary[x].expansion_priority = "Medium Priority"

----------------------------------------------------------------------------
(* Properties of the demand forecast                                        *)

\* the calendar month after a month
MonthAfter(ym) ==
    IF ym.month = 12 THEN [year |-> ym.year + 1, month |-> 1]
    ELSE [year |-> ym.year, month |-> ym.month + 1]

YearMonth(row) == [year |-> row.year, month |-> row.month]

\* C3: whenever forecasting succeeds, the forecast list has exactly 3 entries, the
\* first is the calendar month after the last observed month and each next one is
\* the calendar month after the one before it (month 12 is followed by month 1 of
\* the next year).
C3_ThreeSequentialMonths ==
    forecast_pc = "returned models" =>
        LET fc == forecasting_models.forecasts
        IN /\ Len(fc) = 3
           /\ YearMonth(fc[1]) = MonthAfter(YearMonth(monthly_data[Len(monthly_data)]))
           /\ YearMonth(fc[2]) = MonthAfter(YearMonth(fc[1]))
           /\ YearMonth(fc[3]) = MonthAfter(YearMonth(fc[2]))

\* a successful forecast from a last observed month of November: December, then
\* January and February of the next year
C3_Witness ==
    /\ forecast_pc = "returned models"
    /\ monthly_data[Len(monthly_data)].month = 11
    /\ forecasting_models.forecasts[1].month = 12
    /\ forecasting_models.forecasts[2].month = 1
    /\ forecasting_models.forecasts[2].year = forecasting_models.forecasts[1].year + 1

\* C4: if fewer than 10 monthly rows remain after the rows with undefined lag
\* features are dropped, the function returns the insufficient-data result, fits
\* no model and records no forecasts, at any point of its execution.
C4_InsufficientDataReturnsError ==
    (forecast_pc \notin {"idle", "start"} /\ Len(model_data) < 10) =>
        /\ forecast_pc \in {"check", "returned error"}
        /\ fitted_models = {}
        /\ forecasts = <<>>
        /\ DOMAIN forecasting_models = {}

\* nine rows remain of twelve observed months, and the function has returned
C4_Witness ==
    /\ forecast_pc = "returned error"
    /\ Len(monthly_data) = 12
    /\ Len(model_data) = 9

----------------------------------------------------------------------------
(* Properties of the data cleaner                                           *)

\* C5: running the cleaner a second time on the output of a first run completes
\* and fills nothing: no delivery date, no carrier date, no product category, no
\* product dimension and no payment value.
C5_SecondRunFillsNothing ==
    (cleaner_run = 2 /\ cleaner_pc \in {"returned", "ValueError", "KeyError"}) =>
        (cleaner_pc = "returned" /\ cleaning_log = <<>>)

\* the second run ends in the KeyError of merge_product_categories
C5_SecondRunKeyError == cleaner_run = 2 /\ cleaner_pc = "KeyError"

\* the second run returns after it has filled a delivery date
C5_SecondRunFillsDeliveryDate ==
    /\ cleaner_run = 2
    /\ cleaner_pc = "returned"
    /\ \E k \in DOMAIN cleaning_log : cleaning_log[k].action = "IMPUTE_MISSING_DELIVERY_DATE"

\* the second run returns with nothing filled
C5_SecondRunClean == cleaner_run = 2 /\ cleaner_pc = "returned" /\ cleaning_log = <<>>

Exceptions == {"KeyError", "ValueError", "ZeroDivisionError"}

\* the methods clean_all_data calls after remove_duplicates, and its return
AfterRemoveDuplicates ==
    {"convert_data_types", "merge_product_categories", "create_derived_features",
     "validate_foreign_keys", "returned"}

\* the mapping the cleaner got has every column of each of its tables
CompleteColumns ==
    \A t \in DOMAIN raw_datasets : raw_datasets[t].columns = CompleteTable(t).columns

\* C11: clean_all_data never raises because a table or a column is absent from the
\* input mapping (the tables that are there hold rows every rule can clean, so an
\* exception of the first run can only come from what is absent).
C11_AbsenceNeverRaises == cleaner_run = 1 => cleaner_pc \notin Exceptions

\* the first run ends in KeyError on a mapping with a table that lacks a column
C11_AbsentColumnRaises ==
    /\ cleaner_run = 1
    /\ cleaner_pc = "KeyError"
    /\ ~CompleteColumns

\* what does hold: no exception when only tables are absent
C11_AbsentTableSkipped ==
    (cleaner_run = 1 /\ CompleteColumns) => cleaner_pc \notin Exceptions

\* the first run returns on a mapping without orders, products and payments
C11_AbsentTableReturned ==
    /\ cleaner_run = 1
    /\ cleaner_pc = "returned"
    /\ DOMAIN raw_datasets \cap {"orders", "products", "order_payments"} = {}
    /\ DOMAIN raw_datasets # {}

\* C12: after cleaning, every row of the payments table has payment_value > 0,
\* for any input payments table.
C12_PaymentsPositive ==
    (cleaner_run = 1 /\ cleaner_pc = "returned") =>
        \A i \in DOMAIN datasets["order_payments"].rows :
            Positive(datasets["order_payments"].rows[i].payment_value)

\* the first run returns a payment whose non-positive value was replaced by NaN
C12_PaymentReplacedByNaN ==
    /\ cleaner_run = 1
    /\ cleaner_pc = "returned"
    /\ \E i \in DOMAIN datasets["order_payments"].rows :
          /\ IsNaN(datasets["order_payments"].rows[i].payment_value)
          /\ NonPositive(raw_datasets["order_payments"].rows[i].payment_value)

\* what does hold: every value is positive when the input has no missing value
\* and at least one positive value
C12_PositiveGivenAPositive ==
    (/\ cleaner_run = 1
     /\ cleaner_pc = "returned"
     /\ \A i \in DOMAIN raw_datasets["order_payments"].rows :
           ~IsNaN(raw_datasets["order_payments"].rows[i].payment_value)
     /\ \E i \in DOMAIN raw_datasets["order_payments"].rows :
           Positive(raw_datasets["order_payments"].rows[i].payment_value)) =>
        \A i \in DOMAIN datasets["order_payments"].rows :
            Positive(datasets["order_payments"].rows[i].payment_value)

\* the input row of index i is the first of its zip-code prefix
FirstOfPrefix(rows, i) ==
    \A j \in 1..(i - 1) :
        rows[j].geolocation_zip_code_prefix # rows[i].geolocation_zip_code_prefix

\* C13: once remove_duplicates has returned, the geolocation table holds exactly
\* one row for each distinct zip-code prefix of the input, and that row is the
\* first row of the prefix in input order.
C13_OneRowPerPrefix ==
    cleaner_pc \in AfterRemoveDuplicates =>
        LET raw == raw_datasets["geolocation"].rows
            out == datasets["geolocation"].rows
        IN /\ Len(out) = Cardinality({raw[i].geolocation_zip_code_prefix : i \in DOMAIN raw})
           /\ \A i \in DOMAIN raw : FirstOfPrefix(raw, i) => \E k \in DOMAIN out : out[k] = raw[i]
           /\ \A k \in DOMAIN out : \E i \in DOMAIN raw : FirstOfPrefix(raw, i) /\ out[k] = raw[i]

\* a returned first run on an input with two prefixes, an exact duplicate and two
\* rows of one prefix that differ in their coordinates
C13_Witness ==
    /\ cleaner_run = 1
    /\ cleaner_pc = "returned"
    /\ LET raw == raw_datasets["geolocation"].rows
       IN /\ Len(datasets["geolocation"].rows) = 2
          /\ \E i, j \in DOMAIN raw : i < j /\ raw[i] = raw[j]
          /\ \E i, j \in DOMAIN raw :
                /\ i < j
                /\ raw[i].geolocation_zip_code_prefix = raw[j].geolocation_zip_code_prefix
                /\ raw[i].geolocation_lat # raw[j].geolocation_lat

\* C14: when clean_missing_values has returned, order_delivered_customer_date is
\* the estimated delivery date for exactly the orders that were delivered and had
\* no customer delivery date, and is unchanged for every other order.
C14_DeliveryDateFilled ==
    cleaner_pc = "remove_duplicates" =>
        LET raw == raw_datasets["orders"].rows
            out == datasets["orders"].rows
        IN /\ Len(out) = Len(raw)
           /\ \A i \in DOMAIN raw :
                 out[i].order_delivered_customer_date =
                    IF /\ raw[i].order_status = "delivered"
                       /\ IsNaT(raw[i].order_delivered_customer_date)
                    THEN raw[i].order_estimated_delivery_date
                    ELSE raw[i].order_delivered_customer_date

\* a delivered order got its estimated date while an order that is not delivered
\* and has an estimated date stayed without delivery date
C14_Witness ==
    /\ cleaner_run = 1
    /\ cleaner_pc = "remove_duplicates"
    /\ LET raw == raw_datasets["orders"].rows
           out == datasets["orders"].rows
       IN /\ \E i \in DOMAIN raw :
                /\ IsNaT(raw[i].order_delivered_customer_date)
                /\ out[i].order_delivered_customer_date = DateText(25)
          /\ \E i \in DOMAIN raw :
                /\ raw[i].order_status = "shipped"
                /\ ~IsNaT(raw[i].order_estimated_delivery_date)
                /\ IsNaT(out[i].order_delivered_customer_date)

\* C15: when clean_missing_values has returned, an order whose carrier date was
\* missing has it one day before its customer delivery date if that date is
\* present (as filled in the same pass) and missing otherwise; a carrier date that
\* was present is unchanged.
C15_CarrierDateEstimated ==
    cleaner_pc = "remove_duplicates" =>
        LET raw == raw_datasets["orders"].rows
            out == datasets["orders"].rows
        IN \A i \in DOMAIN raw :
              IF ~IsNaT(raw[i].order_delivered_carrier_date)
              THEN out[i].order_delivered_carrier_date = raw[i].order_delivered_carrier_date
              ELSE IF IsNaT(out[i].order_delivered_customer_date)
              THEN IsNaT(out[i].order_delivered_carrier_date)
              ELSE /\ ~IsNaT(out[i].order_delivered_carrier_date)
                   /\ out[i].order_delivered_carrier_date.day =
                         out[i].order_delivered_customer_date.day - 1

\* an order without carrier and delivery date got both in one pass, next to an
\* order whose carrier date stayed missing
C15_Witness ==
    /\ cleaner_run = 1
    /\ cleaner_pc = "remove_duplicates"
    /\ LET raw == raw_datasets["orders"].rows
           out == datasets["orders"].rows
       IN /\ \E i \in DOMAIN raw :
                /\ IsNaT(raw[i].order_delivered_carrier_date)
                /\ IsNaT(raw[i].order_delivered_customer_date)
                /\ out[i].order_delivered_customer_date = DateText(25)
                /\ out[i].order_delivered_carrier_date = Timestamp(24)
          /\ \E i \in DOMAIN raw :
                /\ IsNaT(raw[i].order_delivered_carrier_date)
                /\ IsNaT(out[i].order_delivered_carrier_date)

\* C16: a ratio whose denominator is zero yields 0 and no exception; for the
\* percentage of removed duplicates of a table with zero rows: remove_duplicates
\* does not end in ZeroDivisionError.
C16_ZeroRowsNoException == cleaner_pc # "ZeroDivisionError"

\* remove_duplicates raised ZeroDivisionError on a geolocation table without rows
C16_ZeroRowsRaises ==
    /\ cleaner_pc = "ZeroDivisionError"
    /\ Len(raw_datasets["geolocation"].rows) = 0

----------------------------------------------------------------------------
(* Properties of the master datasets                                        *)

\* C17: for any subset of absent input tables create_master_analytical_datasets
\* completes without raising.
C17_AbsentTablesNeverRaise == fe_pc # "KeyError"

\* the method ends in KeyError on a mapping that has orders and order_items but
\* no customers
C17_AbsentCustomersRaises ==
    /\ fe_pc = "KeyError"
    /\ {"orders", "order_items"} \subseteq DOMAIN fe_datasets
    /\ "customers" \notin DOMAIN fe_datasets

\* what does hold: the method raises exactly for the mappings that have orders
\* but lack order_items, customers or sellers, and for those that have payments
\* but lack orders
C17_RaisesExactlyWhen ==
    fe_pc \in {"returned", "KeyError"} =>
        (fe_pc = "KeyError" <=>
            \/ /\ "orders" \in DOMAIN fe_datasets
               /\ ~({"order_items", "customers", "sellers"} \subseteq DOMAIN fe_datasets)
            \/ /\ "orders" \notin DOMAIN fe_datasets
               /\ "order_payments" \in DOMAIN fe_datasets)

\* the method returns without products and order_reviews, with an empty
\* product_performance
C17_AbsentProductsReturned ==
    /\ fe_pc = "returned"
    /\ DOMAIN fe_datasets \cap {"products", "order_reviews"} = {}
    /\ "orders" \in DOMAIN fe_datasets
    /\ IsEmpty(master_datasets.product_performance)
    /\ ~IsEmpty(master_datasets.customer_analytics)

----------------------------------------------------------------------------
(* Properties of the analyses                                               *)

\* the files without which an analysis cannot complete
RequiredFiles(a) ==
    IF a = "market_expansion"
    THEN {"feature_engineered/market_expansion.csv", "cleaned/cleaned_orders.csv",
          "cleaned/cleaned_customers.csv", "cleaned/cleaned_sellers.csv"}
    ELSE IF a = "customer_analytics" THEN {"feature_engineered/customer_analytics.csv"}
    ELSE {"cleaned/cleaned_orders.csv", "cleaned/cleaned_order_items.csv"}

Completed == {"returned", "returned True"}

Unhandled == {"FileNotFoundError", "KeyError"}

\* C18 as stated: an analysis that was run with one of its required files missing
\* ended in an unhandled exception, and an analysis that was run with all its
\* required files completed, whatever the other analyses did.
C18_MissingFileUnhandled ==
    \A a \in Analyses :
        analysis_outcome[a] # "ready" =>
            IF RequiredFiles(a) \subseteq data_files
            THEN analysis_outcome[a] \in Completed
            ELSE analysis_outcome[a] \in Unhandled

\* C18: customer analytics and seasonal analysis end in an unhandled exception
\* when one of their required files is missing, market expansion catches the
\* exception and returns False; an analysis that has all its required files
\* completes, whatever the other analyses did.
C18_MissingFileOutcome ==
    \A a \in Analyses :
        analysis_outcome[a] # "ready" =>
            IF RequiredFiles(a) \subseteq data_files
            THEN analysis_outcome[a] \in Completed
            ELSE IF a = "market_expansion"
            THEN analysis_outcome[a] = "returned False"
            ELSE analysis_outcome[a] \in Unhandled

\* all three analyses have run: customer analytics raised, market expansion
\* returned False, seasonal analysis completed
C18_Witness ==
    /\ analysis_outcome["customer_analytics"] = "FileNotFoundError"
    /\ analysis_outcome["market_expansion"] = "returned False"
    /\ analysis_outcome["seasonal_analysis"] = "returned"

----------------------------------------------------------------------------
(* Properties of run_complete_seasonal_analysis                             *)

\* C19: build_demand_forecasting_model is invoked at most once during
\* run_complete_seasonal_analysis, also when the data is insufficient.
C19_BuildAtMostOnce == build_calls <= 1

\* a run over twelve months of orders has returned: the model was never
\* stored and build_demand_forecasting_model was invoked three times
C19_BuildThreeTimes ==
    /\ run_pc = "returned"
    /\ Len(monthly_data) = 12
    /\ NoForecastingModels(forecasting_models)
    /\ build_calls = 3

\* a run that returned invoked build_demand_forecasting_model once when the
\* data was sufficient and three times when it was not
C19_BuildCalls ==
    run_pc = "returned" =>
        build_calls = IF InsufficientData(LaggedRows(monthly_data)) THEN 3 ELSE 1

\* a run over sufficient data has returned after one invocation
C19_BuildOnceOnSufficientData ==
    /\ run_pc = "returned"
    /\ ~InsufficientData(LaggedRows(monthly_data))
    /\ build_calls = 1

----------------------------------------------------------------------------
(* Properties of DataLoader.load_all_datasets                               *)

\* the file can be parsed under one of the encodings the loader tries
Readable(file) ==
    file.utf8 = "none" \/ (file.utf8 = "UnicodeDecodeError" /\ file.latin1 = "none")

\* C20: load_all_datasets never raises; the returned mapping contains a name
\* exactly when its file exists, is readable and is not empty, and every
\* returned table has at least one row.
C20_LoadedExactlyNonEmpty ==
    /\ loader_pc \in FileKeys \cup {"store", "returned"}
    /\ loader_pc = "returned" =>
          /\ \A k \in FileKeys :
                k \in DOMAIN loader_datasets <=>
                   /\ loader_files[k].exists
                   /\ Readable(loader_files[k])
                   /\ loader_files[k].rows >= 1
          /\ \A k \in DOMAIN loader_datasets : loader_datasets[k].rows >= 1

\* load_all_datasets returned a mapping that holds a table without rows
C20_EmptyTableReturned ==
    /\ loader_pc = "returned"
    /\ \E k \in DOMAIN loader_datasets :
          /\ loader_datasets[k].rows = 0
          /\ loader_files[k].utf8 = "UnicodeDecodeError"

\* what the returned mapping contains: the files that exist and are readable,
\* without those that decode as UTF-8 and have no rows; each table has the
\* rows of its file
C20_LoadedExactly ==
    loader_pc = "returned" =>
        /\ \A k \in FileKeys :
              k \in DOMAIN loader_datasets <=>
                 /\ loader_files[k].exists
                 /\ Readable(loader_files[k])
                 /\ (loader_files[k].rows >= 1 \/ loader_files[k].utf8 = "UnicodeDecodeError")
        /\ \A k \in DOMAIN loader_datasets : loader_datasets[k].rows = loader_files[k].rows

----------------------------------------------------------------------------
(* Properties of the customer status                                        *)

\* C21: customer_status is 'Active' when days_since_last_order <= 90,
\* 'Inactive' when it is > 90 and <= 180, 'Churned' when it is > 180, whatever
\* the revenue of the customer; a customer with total_orders = 1 has
\* is_repeat_customer = False.
C21_StatusByRecency ==
    scoring_result = "ok" =>
        \A i \in DOMAIN customer_metrics :
            LET row == customer_metrics[i]
            IN /\ row.customer_status = "Active" <=> row.days_since_last_order <= 90
               /\ row.customer_status = "Inactive" <=>
                     (row.days_since_last_order > 90 /\ row.days_since_last_order <= 180)
               /\ row.customer_status = "Churned" <=> row.days_since_last_order > 180
               /\ row.total_orders = 1 => row.is_repeat_customer = FALSE
               /\ \A j \in DOMAIN customer_metrics :
                     customer_metrics[j].days_since_last_order = row.days_since_last_order
                        => customer_metrics[j].customer_status = row.customer_status

\* a scored cohort with single-order customers 90, 180 and 181 days back
C21_Witness ==
    /\ scoring_result = "ok"
    /\ \E i, j, k \in DOMAIN customer_metrics :
          /\ customer_metrics[i].days_since_last_order = 90
          /\ customer_metrics[i].customer_status = "Active"
          /\ customer_metrics[i].total_orders = 1
          /\ ~customer_metrics[i].is_repeat_customer
          /\ customer_metrics[j].days_since_last_order = 180
          /\ customer_metrics[j].customer_status = "Inactive"
          /\ customer_metrics[k].days_since_last_order = 181
          /\ customer_metrics[k].customer_status = "Churned"
          /\ customer_metrics[k].total_revenue # customer_metrics[i].total_revenue

----------------------------------------------------------------------------
(* Properties of the derived delivery columns                               *)

\* C22: for every input that contains an orders table, the orders table
\* returned by clean_all_data has a delivery_days column.
C22_DeliveryDaysColumn ==
    (cleaner_pc = "returned" /\ Has(raw_datasets, "orders")) =>
        "delivery_days" \in datasets["orders"].columns

\* clean_all_data returned an orders table without the column: no order of the
\* input has a delivery date after cleaning
C22_NoDeliveryDaysColumn ==
    /\ cleaner_pc = "returned"
    /\ cleaner_run = 1
    /\ Has(raw_datasets, "orders")
    /\ delivered_orders(datasets["orders"].rows) = {}
    /\ "delivery_days" \notin datasets["orders"].columns

\* the column is there exactly when some order has both its delivery date and
\* its purchase timestamp after cleaning
C22_DeliveryDaysColumnWhen ==
    (cleaner_pc = "returned" /\ Has(raw_datasets, "orders")) =>
        ("delivery_days" \in datasets["orders"].columns
            <=> delivered_orders(datasets["orders"].rows) # {})

----------------------------------------------------------------------------
(* Properties of the cleaned data directory                                 *)

\* C23: after any sequence of save_cleaned_datasets runs, load_cleaned_datasets
\* returns exactly the dataset names written by the most recent save.
C23_ReloadIsLastSave ==
    (store_pc = "loaded" /\ save_runs >= 1) => reloaded_datasets = cleaned_datasets

\* a reload after two saves returned a table the most recent save did not write
C23_StaleTableReloaded ==
    /\ store_pc = "loaded"
    /\ save_runs = 2
    /\ cleaned_datasets = FileKeys \ {"sellers"}
    /\ "sellers" \in reloaded_datasets

\* a reload returns the tables of the most recent save and possibly tables of
\* earlier saves; after a single save it returns exactly what was saved
C23_ReloadHoldsLastSave ==
    (store_pc = "loaded" /\ save_runs >= 1) =>
        /\ cleaned_datasets \subseteq reloaded_datasets
        /\ reloaded_datasets \subseteq FileKeys
        /\ save_runs = 1 => reloaded_datasets = cleaned_datasets

----------------------------------------------------------------------------
(* Properties of the feature-engineered data directory                      *)

\* the files save_master_datasets writes for the master datasets that are
\* not nested
MasterNames ==
    {"market_expansion", "customer_analytics", "payment_operations", "product_performance"}

\* C24: after a feature-engineering run has saved its master datasets, every
\* master-dataset CSV of the directory was written by that run, so that
\* load_feature_engineered_datasets returns no data of an earlier run.
C24_LoadedFromThisRun ==
    fe_pc = "loaded" =>
        \A n \in DOMAIN fe_loaded \cap MasterNames :
            fe_loaded[n].by = "feature_engineer" /\ fe_loaded[n].run = fe_runs

\* the second run had no products table and saved: the load returns the
\* product_performance dataset of the first run
C24_EarlierRunLoaded ==
    /\ fe_pc = "loaded"
    /\ fe_runs = 2
    /\ "products" \notin DOMAIN fe_datasets
    /\ "product_performance" \in DOMAIN fe_loaded
    /\ fe_loaded["product_performance"].run = 1

\* every master dataset of the run that is not empty is loaded as that run
\* wrote it
C24_SavedDatasetsLoaded ==
    fe_pc = "loaded" =>
        \A n \in MasterNames :
            ~IsEmpty(master_datasets[n]) =>
                /\ n \in DOMAIN fe_loaded
                /\ fe_loaded[n].run = fe_runs
                /\ fe_loaded[n].columns = master_datasets[n].columns

\* C29: after the feature-engineering save and the main of the seasonal
\* analysis have both run, in either order,
\* seasonal_intelligence_seasonal_variance.csv holds the totals per month with
\* their total_revenue column.
C29_SeasonalVarianceMonthlyTotals ==
    (fe_runs >= 1 /\ seasonal_runs >= 1 /\ fe_pc \in {"saved", "loaded"}) =>
        /\ "seasonal_intelligence_seasonal_variance.csv" \in DOMAIN output_dir
        /\ "total_revenue" \in
              output_dir["seasonal_intelligence_seasonal_variance.csv"].columns

\* the seasonal analysis wrote all six files, a feature-engineering run saved
\* after it, and the dashboard page got None: the file holds the variance per
\* category
C29_PageWithoutMonthlyTotals ==
    /\ fe_runs = 1
    /\ seasonal_runs = 1
    /\ fe_pc = "saved"
    /\ SeasonalPageFiles \subseteq DOMAIN output_dir
    /\ output_dir["seasonal_intelligence_forecasts.csv"].by = "seasonal_analysis"
    /\ output_dir["seasonal_intelligence_seasonal_variance.csv"].by = "feature_engineer"
    /\ "category" \in output_dir["seasonal_intelligence_seasonal_variance.csv"].columns
    /\ "total_revenue" \notin
          output_dir["seasonal_intelligence_seasonal_variance.csv"].columns
    /\ dashboard_data = "None"

\* the file holds the totals per month exactly when the seasonal analysis
\* wrote it last
C29_MonthlyTotalsWhenSeasonalLast ==
    "seasonal_intelligence_seasonal_variance.csv" \in DOMAIN output_dir =>
        ("total_revenue" \in output_dir["seasonal_intelligence_seasonal_variance.csv"].columns
            <=> output_dir["seasonal_intelligence_seasonal_variance.csv"].by
                    = "seasonal_analysis")

----------------------------------------------------------------------------
(* Properties of cache_data_with_ttl                                        *)

\* C25: a call of a wrapped function returns a stored value only if that value
\* was stored by a call of the same function with the same positional and
\* keyword arguments and the entry is younger than the TTL; in every other
\* case the function is executed and its result overwrites the entry.
C25_StoredValueOfSameCall ==
    cache_calls >= 1 =>
        LET key == cache_key(last_call.func, last_call.args, last_call.kwargs)
        IN IF last_call.executed
           THEN cache_files[key].value = last_call.result
           ELSE /\ last_call.result.func = last_call.func
                /\ last_call.result.args = last_call.args
                /\ last_call.result.kwargs = last_call.kwargs
                /\ last_call.age < TtlHours

\* a call returned the value that a call with other keyword arguments stored
C25_ValueOfOtherKeywords ==
    /\ cache_calls >= 2
    /\ ~last_call.executed
    /\ last_call.result.func = last_call.func
    /\ last_call.result.args = last_call.args
    /\ last_call.result.kwargs # last_call.kwargs

\* a stored value is returned only for the same function and the same
\* positional arguments and while the entry is younger than the TTL; the
\* result of a call that executed is the entry of its key
C25_StoredValueOfSamePositionals ==
    cache_calls >= 1 =>
        LET key == cache_key(last_call.func, last_call.args, last_call.kwargs)
        IN IF last_call.executed
           THEN /\ cache_files[key].value = last_call.result
                /\ last_call.result = Execute(last_call.func, last_call.args, last_call.kwargs)
           ELSE /\ last_call.result.func = last_call.func
                /\ last_call.result.args = last_call.args
                /\ last_call.age < TtlHours

----------------------------------------------------------------------------
(* Properties of the analyze() wrappers                                     *)

\* C26: analyze() runs the complete analysis pipeline of its module and
\* returns its result; for seasonal_analysis the steps load, prepare, monthly
\* patterns, holiday impact, forecast, variance, inventory recommendations and
\* report are executed.
C26_AnalyzeRunsPipeline ==
    analyze_result \in {"True", "False", "results"} =>
        IF analyze_module = "market_expansion"
        THEN /\ analyze_result = "True" <=> run_market_expansion(data_files) = "returned True"
             /\ analyze_result = "True" => analyze_steps = MarketExpansionSteps
        ELSE run_seasonal_analysis(data_files) = "returned" =>
                /\ analyze_steps = SeasonalSteps
                /\ analyze_result = "results"

\* seasonal_analysis.analyze() returned False with every file in place and
\* without a step of the pipeline executed
C26_SeasonalAnalyzeRunsNothing ==
    /\ analyze_module = "seasonal_analysis"
    /\ data_files = DataFiles
    /\ analyze_result = "False"
    /\ analyze_steps = <<>>

\* market_expansion.analyze() returns what run_complete_analysis returns after
\* its steps; seasonal_analysis.analyze() returns False and executes nothing
C26_AnalyzeOutcome ==
    analyze_result \in {"True", "False", "results"} =>
        IF analyze_module = "market_expansion"
        THEN /\ analyze_result = "True" <=> run_market_expansion(data_files) = "returned True"
             /\ analyze_result = "True" => analyze_steps = MarketExpansionSteps
             /\ analyze_result = "False" => analyze_steps = <<"load_data">>
        ELSE analyze_result = "False" /\ analyze_steps = <<>>


----------------------------------------------------------------------------
(* Lag inputs of the three forecasts                                        *)

\* the lag-j inputs of a feature record
RevenueLag(features, j) ==
    IF j = 1 THEN features.revenue_lag_1
    ELSE IF j = 2 THEN features.revenue_lag_2 ELSE features.revenue_lag_3

OrdersLag(features, j) ==
    IF j = 1 THEN features.orders_lag_1
    ELSE IF j = 2 THEN features.orders_lag_2 ELSE features.orders_lag_3

\* the value of month t+k-j, t being the last monthly row: the prediction of
\* forecast k-j when k > j, else the aggregate of the row j-k before the last
MonthValue(k, j) ==
    IF k > j THEN Predicted(k - j) ELSE Observed(Len(monthly_data) - (j - k))

\* C27: when month t+k is forecast (k = 1, 2, 3), each lag-j input (j = 1,
\* 2, 3) for revenue and for orders is the value of month t+k-j: the
\* prediction for that month when k > j, otherwise its observed value.
C27_LagInputsOfTheirMonth ==
    \A k \in 1..Len(forecasts) : \A j \in 1..3 :
        /\ RevenueLag(forecasts[k].features, j) = MonthValue(k, j)
        /\ OrdersLag(forecasts[k].features, j) = MonthValue(k, j)

\* the forecasts are returned, and the lag-3 inputs of the second one are the
\* values of the last observed month t, not of month t-1
C27_SecondForecastLagThreeIsLastMonth ==
    /\ forecast_pc = "returned models"
    /\ Len(forecasts) = ForecastHorizon
    /\ forecasts[2].features.revenue_lag_3 = Observed(Len(monthly_data))
    /\ forecasts[2].features.orders_lag_3 = Observed(Len(monthly_data))
    /\ MonthValue(2, 3) = Observed(Len(monthly_data) - 1)

\* every lag input other than the lag-3 inputs of the second forecast is the
\* value of its month
C27_OtherLagInputsOfTheirMonth ==
    \A k \in 1..Len(forecasts) : \A j \in 1..3 :
        ~(k = 2 /\ j = 3) =>
            /\ RevenueLag(forecasts[k].features, j) = MonthValue(k, j)
            /\ OrdersLag(forecasts[k].features, j) = MonthValue(k, j)


----------------------------------------------------------------------------
(* Data validation: DataValidator. A table is [dtypes, rows]: dtypes maps   *)
(* each column to its dtype, a row maps each column to NA or Num(value).    *)
(* The tables carry the columns the checks below read; a check on a column  *)
(* a table does not have is skipped, as in the code.                        *)

\* bound on the rows of a validated table
MaxValidatedRows == 1

critical_columns ==
    [orders |-> {"order_id", "customer_id", "order_status", "order_purchase_timestamp"},
     customers |-> {"customer_id", "customer_state"},
     products |-> {"product_id", "product_category_name"},
     order_items |-> {"order_id", "product_id", "seller_id", "price"},
     order_payments |-> {"order_id", "payment_type", "payment_value"}]

\* df[col].isnull().sum()
missing_count(df, col) == Cardinality({i \in DOMAIN df.rows : df.rows[i][col].isna})

\* (missing_count / len(df)) * 100: NaN for a table without rows
missing_percentage(df, col) == Frac(missing_count(df, col) * 100, Len(df.rows))

\* the (table, column) pairs of a mapping table -> columns that the datasets have
ColumnsToCheck(ds, expected) ==
    UNION {{<<t, c>> : c \in expected[t] \cap DOMAIN ds[t].dtypes} :
              t \in DOMAIN expected \cap DOMAIN ds}

\* per check: its recorded status, and whether it sets validation_passed = False
CompletenessChecks(ds) ==
    [k \in ColumnsToCheck(ds, critical_columns) |->
        LET pct == missing_percentage(ds[k[1]], k[2])
        IN [status |-> IF FLt(pct, Int2F(1)) THEN "PASS" ELSE "FAIL",
            lowers |-> FLe(Int2F(1), pct)]]

expected_types ==
    [orders |-> [delivery_days |-> {"int64", "float64"}],
     customers |-> [customer_city |-> {"category"}, customer_state |-> {"category"}]]

ExpectedTypeColumns == [t \in DOMAIN expected_types |-> DOMAIN expected_types[t]]

TypeChecks(ds) ==
    [k \in ColumnsToCheck(ds, ExpectedTypeColumns) |->
        LET type_match == ds[k[1]].dtypes[k[2]] \in expected_types[k[1]][k[2]]
        IN [status |-> IF type_match THEN "PASS" ELSE "FAIL",
            lowers |-> ~type_match]]

\* (orders_df['delivery_days'] < 0).sum(): a missing value compares False
negative_delivery_days(df) ==
    Cardinality({i \in DOMAIN df.rows :
        ~df.rows[i].delivery_days.isna /\ df.rows[i].delivery_days.v < 0})

BusinessChecks(ds) ==
    [k \in {<<t, r>> \in {<<"orders", "positive_delivery_days">>} :
               t \in DOMAIN ds /\ "delivery_days" \in DOMAIN ds[t].dtypes} |->
        [status |-> IF negative_delivery_days(ds[k[1]]) = 0 THEN "PASS" ELSE "FAIL",
         lowers |-> negative_delivery_days(ds[k[1]]) > 0]]

\* set(df[key].dropna())
KeysOf(df, key) == {df.rows[i][key].v : i \in {j \in DOMAIN df.rows : ~df.rows[j][key].isna}}

relationships == {<<"customers", "customer_id", "orders", "customer_id">>}

IntegrityChecks(ds) ==
    [k \in {<<r[1], r[3]>> : r \in {q \in relationships :
               /\ q[1] \in DOMAIN ds
               /\ q[3] \in DOMAIN ds
               /\ q[2] \in DOMAIN ds[q[1]].dtypes
               /\ q[4] \in DOMAIN ds[q[3]].dtypes}} |->
        LET orphaned_records == KeysOf(ds[k[2]], "customer_id") \ KeysOf(ds[k[1]], "customer_id")
        IN [status |-> IF orphaned_records = {} THEN "PASS" ELSE "FAIL",
            lowers |-> orphaned_records # {}]]

range_expectations == [orders |-> [delivery_days |-> [min |-> 0, max |-> 365]]]

RangeColumns == [t \in DOMAIN range_expectations |-> DOMAIN range_expectations[t]]

\* df[col].dropna()
valid_data(df, col) == {i \in DOMAIN df.rows : ~df.rows[i][col].isna}

out_of_range_count(df, col, range_def) ==
    Cardinality({i \in valid_data(df, col) :
        df.rows[i][col].v < range_def.min \/ df.rows[i][col].v > range_def.max})

\* a column without values records nothing; a value out of range is a warning
RangeChecks(ds) ==
    [k \in {c \in ColumnsToCheck(ds, RangeColumns) : valid_data(ds[c[1]], c[2]) # {}} |->
        [status |-> IF out_of_range_count(ds[k[1]], k[2], range_expectations[k[1]][k[2]]) = 0
                    THEN "PASS" ELSE "WARN",
         lowers |-> FALSE]]

Categories ==
    <<"completeness", "data_types", "business_rules", "referential_integrity", "data_ranges">>

ChecksOf(category, ds) ==
    IF category = "completeness" THEN CompletenessChecks(ds)
    ELSE IF category = "data_types" THEN TypeChecks(ds)
    ELSE IF category = "business_rules" THEN BusinessChecks(ds)
    ELSE IF category = "referential_integrity" THEN IntegrityChecks(ds)
    ELSE RangeChecks(ds)

\* self.validation_results[category] = the statuses of the checks
Recorded(results, category, checks) ==
    [c \in DOMAIN results \cup {category} |->
        IF c = category THEN [k \in DOMAIN checks |-> checks[k].status] ELSE results[c]]

\* self.validation_passed after the checks of one method
PassedAfter(passed, checks) == passed /\ ~(\E k \in DOMAIN checks : checks[k].lowers)

\* one call of validate_data_completeness, validate_data_types,
\* validate_business_rules, validate_referential_integrity or
\* validate_data_ranges
validate_category ==
    /\ validator_datasets # <<>>
    /\ \E i \in DOMAIN Categories :
          LET checks == ChecksOf(Categories[i], validator_datasets)
          IN /\ validation_results' = Recorded(validation_results, Categories[i], checks)
             /\ validation_passed' = PassedAfter(validation_passed, checks)
    /\ UNCHANGED <<validator_datasets, returned_passed>>
    /\ UNCHANGED <<scoringVars, segmentVars, geoVars, forecastVars, cleanerVars>>
    /\ UNCHANGED <<masterVars, analysisVars, runVars, loaderVars>>
    /\ UNCHANGED ExceptValidator

RECURSIVE RunChecks(_, _, _, _)
\* the categories from the i-th on, in the order validate_all_data calls them
RunChecks(results, passed, ds, i) ==
    IF i > Len(Categories) THEN [results |-> results, passed |-> passed]
    ELSE LET checks == ChecksOf(Categories[i], ds)
         IN RunChecks(Recorded(results, Categories[i], checks),
                      PassedAfter(passed, checks), ds, i + 1)

validate_all_data ==
    /\ validator_datasets # <<>>
    /\ LET after == RunChecks(validation_results, validation_passed, validator_datasets, 1)
       IN /\ validation_results' = after.results
          /\ validation_passed' = after.passed
          /\ returned_passed' = IF after.passed THEN "True" ELSE "False"
    /\ UNCHANGED validator_datasets
    /\ UNCHANGED <<scoringVars, segmentVars, geoVars, forecastVars, cleanerVars>>
    /\ UNCHANGED <<masterVars, analysisVars, runVars, loaderVars>>
    /\ UNCHANGED ExceptValidator

\* the customers tables: customer_state is a category after cleaning, an object
\* when read back from a csv file
CustomersTables ==
    {[dtypes |-> [customer_id |-> "object", customer_state |-> dt], rows |-> rows] :
        dt \in {"category", "object"},
        rows \in UNION {[1..n -> [customer_id : {NA, Num(1)}, customer_state : {Num(1)}]] :
                           n \in 0..MaxValidatedRows}}

OrdersTables ==
    {[dtypes |-> [order_id |-> "object", customer_id |-> "object", delivery_days |-> "float64"],
      rows |-> rows] :
        rows \in UNION {[1..n -> [order_id : {Num(1)}, customer_id : {Num(1), Num(2)},
                                  delivery_days : {NA, Num(-1), Num(10), Num(400)}]] :
                           n \in 0..MaxValidatedRows}}

\* DataValidator(datasets)
InitValidator ==
    /\ \E names \in (SUBSET {"customers", "orders"}) \ {{}} :
          \E customers \in CustomersTables, orders \in OrdersTables :
             validator_datasets =
                [t \in names |-> IF t = "customers" THEN customers ELSE orders]
    /\ validation_results = <<>>
    /\ validation_passed = TRUE
    /\ returned_passed = "none"
    /\ IdleScoring
    /\ IdleSegment
    /\ IdleGeo
    /\ IdleForecast
    /\ IdleCleaner
    /\ IdleMaster
    /\ IdleAnalysis
    /\ IdleRun
    /\ IdleLoader
    /\ IdleExceptValidator

NextValidator ==
    \/ validate_category
    \/ validate_all_data

SpecValidator == InitValidator /\ [][NextValidator]_vars

\* a check recorded in validation_results has this status
SomeCheckHas(status) ==
    \E c \in DOMAIN validation_results :
        \E k \in DOMAIN validation_results[c] : validation_results[c][k] = status

\* C28: after any sequence of validation calls on one DataValidator, the
\* pass flag it returns is False exactly when some check recorded in
\* validation_results has status FAIL; checks with status WARN never make
\* it False.
C28_FlagFalseIffFailRecorded ==
    returned_passed # "none" =>
        (returned_passed = "False" <=> SomeCheckHas("FAIL"))

\* a table without rows: its critical columns are recorded as FAIL, and the
\* flag validate_all_data returned is True
C28_FailRecordedFlagTrue ==
    /\ returned_passed = "True"
    /\ validation_passed
    /\ "customers" \in DOMAIN validator_datasets
    /\ validator_datasets["customers"].rows = <<>>
    /\ "completeness" \in DOMAIN validation_results
    /\ validation_results["completeness"][<<"customers", "customer_id">>] = "FAIL"

\* a returned False comes with a recorded FAIL; a recorded FAIL comes with a
\* returned False unless it is a critical column of a table without rows
C28_FlagFalseIffFailOfNonEmptyTable ==
    returned_passed # "none" =>
        /\ returned_passed = "False" => SomeCheckHas("FAIL")
        /\ returned_passed = "True" =>
              \A c \in DOMAIN validation_results :
                 \A k \in DOMAIN validation_results[c] :
                    validation_results[c][k] = "FAIL" =>
                       c = "completeness" /\ validator_datasets[k[1]].rows = <<>>


----------------------------------------------------------------------------
(* Delivery metrics of the orders whose delivery date was filled            *)

\* the row of the cleaned table that the raw order i has become: its status
\* and its dates after conversion, the delivery date filled from the estimate
CleanedRowsOf(raw, out, i) ==
    {k \in DOMAIN out :
        /\ out[k].order_status = raw[i].order_status
        /\ out[k].order_purchase_timestamp = to_datetime_coerce(raw[i].order_purchase_timestamp)
        /\ out[k].order_estimated_delivery_date =
              to_datetime_coerce(raw[i].order_estimated_delivery_date)
        /\ out[k].order_delivered_customer_date =
              to_datetime_coerce(raw[i].order_estimated_delivery_date)}

====
